---- MODULE Spec2Model ----
(***************************************************************************)
(* Render coordinator (RenderManager), its two backends (DibSection,       *)
(* Direct2DSection) and the facade that owns the coordinator               *)
(* (DibFrameBuffer), as a state machine.                                   *)
(*                                                                         *)
(* Backend instances are numbered from a counter, so that "the same        *)
(* instance" and "a destroyed instance" can be told apart; the buffer a    *)
(* backend hands out is identified with the instance that owns it.         *)
(* Results of native calls (factory creation, render target creation,      *)
(* CreateDIBSection, operator new ...) are inputs of the operations.       *)
(***************************************************************************)
EXTENDS Integers, Sequences, FiniteSets, TLC

\* ---------------------------------------------------------------- bounds
\* backend instances that may be created in one run
MaxInst == 3
\* pixel values range over 0..MaxPix
MaxPix == 1
\* handles the operating system hands out in one run
MaxHandles == 6
\* bytes written to one DataCopy in one run, and the longest buffer or
\* length passed to one write or read
MaxWritten == 4
MaxLen == 3

\* ------------------------------------------------------------ vocabulary
NULL == 0
INVALID_HANDLE_VALUE == -1

RENDER_MODE_GDI == "GDI"
RENDER_MODE_DIRECT2D == "D2D"
RenderMode == {RENDER_MODE_GDI, RENDER_MODE_DIRECT2D}

\* Window handles: the null handle, one application window, the desktop.
HWNDs == {"NULL", "W1", "Desktop"}

\* Requested widths and heights: one below 1, one regular.
DimVals == {0, 2}
Dimensions == [width : DimVals, height : DimVals]
\* The one pixel layout the subsystem is used with (32 bits per pixel).
PixelFormats == {"bgra32"}
PixVals == 0..MaxPix

\* Rectangles handed to the blit and resize calls.
Rects == {[left |-> 0, top |-> 0, right |-> r, bottom |-> b] : r \in {2, 3}, b \in {2}}
\* Rectangles handed to the present calls: those, and one that starts left of
\* the origin (Rect holds plain ints, nothing keeps a caller from passing it).
DrawRects == Rects \cup {[left |-> -1, top |-> 0, right |-> 2, bottom |-> 2]}

\* What a constructor or a call ends with: normally, with a SystemException,
\* with an exception of another class (std::bad_alloc from operator new),
\* with the plain Exception the facade throws, or in undefined behaviour.
Thrown == {"none", "SystemException", "other", "Exception", "UB"}

Max(a, b) == IF a > b THEN a ELSE b

\* How a native call that can fail is recorded.
Native(name, ok) == IF ok THEN name ELSE name \o "=FAILED"

VARIABLES
  \* RenderManager
  m_mode, m_dibSection, m_direct2DSection, m_pixelFormat, m_dimension, m_window,
  \* the live Direct2DSection (NoD2D when there is none)
  d2d,
  \* content of the live backend's pixel buffer
  bits,
  \* heap: next instance number, instances deleted so far
  nextId, freed,
  \* DibFrameBuffer: m_renderManager (is there a coordinator), m_fb (FrameBuffer)
  m_renderManager, m_fb,
  \* environment: is the application window W1 still a window
  winValid,
  \* the last call: what was called, with what, and how it ended
  last,
  \* native calls made by the last call, in order
  calls,
  \* Impersonator: the two stored token handles
  m_token, m_dupToken,
  \* PipeServer: the pipe instance waiting for a client, and the static flag
  \* telling that GetNamedPipeClientProcessId was found
  m_serverPipe, m_initialized,
  \* is there a PipeServer object; the client process connected to the pipe
  \* instance m_serverPipe ("none", or how its executable compares to ours)
  server, peer,
  \* the handles PipeServer::accept has handed to the NamedPipe objects it returned
  streams,
  \* DataCopy: the vector buf; every byte passed to write so far and every
  \* byte a read has returned so far, in order
  buf, written, readOut,
  \* operating system: next handle value, the open handles, the handles
  \* given to CloseHandle while not open, the identity the thread runs as
  hNext, hOpen, hBadClose, identity

\* Impersonator, PipeServer and the handle table
otherVars == <<m_token, m_dupToken, m_serverPipe, m_initialized, server, peer, streams,
               buf, written, readOut,
               hNext, hOpen, hBadClose, identity>>
pipeVars == <<m_serverPipe, m_initialized, server, peer, streams>>
dcVars == <<buf, written, readOut>>

rmVars == <<m_mode, m_dibSection, m_direct2DSection, m_pixelFormat, m_dimension, m_window>>
renderVars == <<m_mode, m_dibSection, m_direct2DSection, m_pixelFormat, m_dimension, m_window,
                d2d, bits, nextId, freed, m_renderManager, m_fb, winValid>>
vars == <<renderVars, last, calls, otherVars>>

\* ------------------------------------------------------------ environment
IsWindow(w) == w = "Desktop" \/ (w = "W1" /\ winValid)
GetDesktopWindow == "Desktop"

\* ------------------------------------------------------- Direct2DSection
NoSize == [width |-> 0, height |-> 0]

\* Fields of a Direct2DSection whose resources are all released / not created.
NoD2D == [m_pD2DFactory |-> FALSE, m_pRenderTarget |-> "NULL",
          m_pHwndRenderTarget |-> FALSE, m_pDCRenderTarget |-> FALSE,
          m_pBitmap |-> FALSE, m_bitmapBits |-> FALSE,
          m_hwnd |-> "NULL", m_width |-> 0, m_height |-> 0,
          rtSize |-> NoSize, bitmapSize |-> NoSize]

\* Results of the native calls made while constructing a Direct2DSection.
\* alloc: operator new; factory: D2D1CreateFactory; client: GetClientRect;
\* hwndRT: CreateHwndRenderTarget; dcRT: CreateDCRenderTarget;
\* bind: the DC render target gets bound (GetDC hands out a device context
\* and BindDC succeeds); bitmap: CreateBitmap; malloc: malloc.
AllD2DOutcomes == [alloc : BOOLEAN, factory : BOOLEAN,
                   client : {NoSize, [width |-> 3, height |-> 3]},
                   hwndRT : BOOLEAN, dcRT : BOOLEAN, bind : BOOLEAN,
                   bitmap : BOOLEAN, malloc : BOOLEAN]

\* The construction stops at the first failing step, and a step that is not
\* reached has no result: such results are written as TRUE (NoSize for client).
Reached(o) ==
  /\ (~o.alloc => o.factory)
  /\ (~(o.alloc /\ o.factory) => o.client = NoSize /\ o.hwndRT)
  /\ (~(o.alloc /\ o.factory /\ ~o.hwndRT) => o.dcRT)
  /\ (~(o.alloc /\ o.factory /\ ~o.hwndRT /\ o.dcRT) => o.bind)
  /\ (~(o.alloc /\ o.factory /\ (o.hwndRT \/ o.dcRT)) => o.bitmap)
  /\ (~(o.alloc /\ o.factory /\ (o.hwndRT \/ o.dcRT) /\ o.bitmap) => o.malloc)

D2DOutcomes == {o \in AllD2DOutcomes : Reached(o)}

\* The members as the constructor's initializer list leaves them.
D2DMembers(dim) == [NoD2D EXCEPT !.m_width = dim.width, !.m_height = dim.height]

\* Mutant of releaseDirect2D: the factory is not released.
releaseDirect2D_mut(f) ==
  [f |-> [f EXCEPT !.m_bitmapBits = FALSE, !.m_pBitmap = FALSE,
                   !.m_pRenderTarget = "NULL", !.m_pDCRenderTarget = FALSE,
                   !.m_pHwndRenderTarget = FALSE,
                   !.rtSize = NoSize, !.bitmapSize = NoSize],
   calls |-> (IF f.m_bitmapBits THEN <<"free">> ELSE <<>>)
               \o (IF f.m_pBitmap THEN <<"Bitmap.Release">> ELSE <<>>)
               \o (IF f.m_pRenderTarget # "NULL" THEN <<"RenderTarget.Release">> ELSE <<>>)]

\* releaseDirect2D: the members after it and the releases it makes, in order.
releaseDirect2D(f) ==
  [f |-> [f EXCEPT !.m_bitmapBits = FALSE, !.m_pBitmap = FALSE,
                   !.m_pRenderTarget = "NULL", !.m_pDCRenderTarget = FALSE,
                   !.m_pHwndRenderTarget = FALSE, !.m_pD2DFactory = FALSE,
                   !.rtSize = NoSize, !.bitmapSize = NoSize],
   calls |-> (IF f.m_bitmapBits THEN <<"free">> ELSE <<>>)
               \o (IF f.m_pBitmap THEN <<"Bitmap.Release">> ELSE <<>>)
               \o (IF f.m_pRenderTarget # "NULL" THEN <<"RenderTarget.Release">> ELSE <<>>)
               \o (IF f.m_pD2DFactory THEN <<"Factory.Release">> ELSE <<>>)]

\* Mutant of targetCalls: the device-context-bound target is tried first.
targetCalls_mut(o) ==
  IF o.dcRT /\ ~o.hwndRT
  THEN <<"CreateDCRenderTarget">>
         \o (IF o.bind THEN <<"GetDC", "BindDC", "ReleaseDC">> ELSE <<"GetDC=NULL">>)
  ELSE <<"CreateDCRenderTarget=FAILED", Native("CreateHwndRenderTarget", o.hwndRT)>>

\* The render-target part of initDirect2D: the window-bound target is tried
\* and, when that fails, the device-context-bound one, which is then bound
\* to the window's device context when GetDC hands one out.
targetCalls(o) ==
  IF o.hwndRT THEN <<"CreateHwndRenderTarget">>
  ELSE <<"CreateHwndRenderTarget=FAILED", Native("CreateDCRenderTarget", o.dcRT)>>
         \o (IF ~o.dcRT THEN <<>>
             ELSE IF o.bind THEN <<"GetDC", "BindDC", "ReleaseDC">>
             ELSE <<"GetDC=NULL">>)

\* Mutant of initDirect2D: the device-context-bound pointer is set whichever
\* target was created.
initDirect2D_mut(f0, dim, compatibleWin, o) ==
  LET win == IF compatibleWin = "NULL" THEN GetDesktopWindow ELSE compatibleWin
      width == Max(1, dim.width)
      height == Max(1, dim.height)
      clientOk == o.client.width > 0 /\ o.client.height > 0
      renderSize == IF clientOk THEN o.client ELSE [width |-> width, height |-> height]
      failed(f, why, cs) == [f |-> f, exc |-> "SystemException", why |-> why, calls |-> cs]
      c1 == (IF compatibleWin = "NULL" THEN <<"GetDesktopWindow">> ELSE <<>>)
      f1 == [f0 EXCEPT !.m_hwnd = win]
      f2 == [f1 EXCEPT !.m_pD2DFactory = TRUE]
      c2 == c1 \o <<"IsWindow", "D2D1CreateFactory", "GetClientRect">>
      c3 == c2 \o targetCalls(o)
      f3 == [f2 EXCEPT !.m_pRenderTarget = IF o.hwndRT THEN "hwnd" ELSE "dc",
                       !.m_pHwndRenderTarget = o.hwndRT,
                       !.m_pDCRenderTarget = TRUE,
                       !.rtSize = IF o.hwndRT \/ o.bind THEN renderSize ELSE NoSize]
      f4 == [f3 EXCEPT !.m_pBitmap = TRUE, !.bitmapSize = [width |-> width, height |-> height]]
      f5 == [f4 EXCEPT !.m_bitmapBits = TRUE]
  IN  IF ~IsWindow(win) THEN failed(f0, "window", c1 \o <<"IsWindow=FAILED">>)
      ELSE IF ~o.factory
      THEN failed(f1, "factory", c1 \o <<"IsWindow", "D2D1CreateFactory=FAILED">>)
      ELSE IF ~o.hwndRT /\ ~o.dcRT THEN failed(f2, "target", c3)
      ELSE IF ~o.bitmap THEN failed(f3, "bitmap", c3 \o <<"CreateBitmap=FAILED">>)
      ELSE IF ~o.malloc THEN failed(f4, "malloc", c3 \o <<"CreateBitmap", "malloc=FAILED">>)
      ELSE [f |-> f5, exc |-> "none", why |-> "ok",
            calls |-> c3 \o <<"CreateBitmap", "malloc", "memset", "BeginDraw", "Clear", "EndDraw">>]

\* initDirect2D on the members f0: the members it leaves (those set so far
\* when it throws), how it ends, the step that failed ("why") and the native
\* calls it made, in order.
initDirect2D(f0, dim, compatibleWin, o) ==
  LET win == IF compatibleWin = "NULL" THEN GetDesktopWindow ELSE compatibleWin
      width == Max(1, dim.width)
      height == Max(1, dim.height)
      clientOk == o.client.width > 0 /\ o.client.height > 0
      renderSize == IF clientOk THEN o.client ELSE [width |-> width, height |-> height]
      failed(f, why, cs) == [f |-> f, exc |-> "SystemException", why |-> why, calls |-> cs]
      c1 == (IF compatibleWin = "NULL" THEN <<"GetDesktopWindow">> ELSE <<>>)
      f1 == [f0 EXCEPT !.m_hwnd = win]
      f2 == [f1 EXCEPT !.m_pD2DFactory = TRUE]
      c2 == c1 \o <<"IsWindow", "D2D1CreateFactory", "GetClientRect">>
      c3 == c2 \o targetCalls(o)
      f3 == [f2 EXCEPT !.m_pRenderTarget = IF o.hwndRT THEN "hwnd" ELSE "dc",
                       !.m_pHwndRenderTarget = o.hwndRT,
                       !.m_pDCRenderTarget = ~o.hwndRT,
                       !.rtSize = IF o.hwndRT \/ o.bind THEN renderSize ELSE NoSize]
      f4 == [f3 EXCEPT !.m_pBitmap = TRUE, !.bitmapSize = [width |-> width, height |-> height]]
      f5 == [f4 EXCEPT !.m_bitmapBits = TRUE]
  IN  IF ~IsWindow(win) THEN failed(f0, "window", c1 \o <<"IsWindow=FAILED">>)
      ELSE IF ~o.factory
      THEN failed(f1, "factory", c1 \o <<"IsWindow", "D2D1CreateFactory=FAILED">>)
      ELSE IF ~o.hwndRT /\ ~o.dcRT THEN failed(f2, "target", c3)
      ELSE IF ~o.bitmap THEN failed(f3, "bitmap", c3 \o <<"CreateBitmap=FAILED">>)
      ELSE IF ~o.malloc THEN failed(f4, "malloc", c3 \o <<"CreateBitmap", "malloc=FAILED">>)
      ELSE [f |-> f5, exc |-> "none", why |-> "ok",
            calls |-> c3 \o <<"CreateBitmap", "malloc", "memset", "BeginDraw", "Clear", "EndDraw">>]

\* The constructor's try block around initDirect2D, given how initDirect2D
\* ended: on a throw the handler runs releaseDirect2D and rethrows, and the
\* object is never handed out (f is then NoD2D).
ctorCatch(c) ==
  IF c.exc = "none" THEN c
  ELSE [f |-> NoD2D, exc |-> c.exc, why |-> c.why,
        calls |-> c.calls \o releaseDirect2D(c.f).calls]

\* new Direct2DSection(pf, dim, compatibleWin)
NewDirect2DSection(dim, compatibleWin, o) ==
  IF ~o.alloc THEN [f |-> NoD2D, exc |-> "other", why |-> "alloc", calls |-> <<>>]
  ELSE ctorCatch(initDirect2D(D2DMembers(dim), dim, compatibleWin, o))

\* ------------------------------------------------------------ DibSection
\* new DibSection(pf, dim, compatibleWin) ends normally, with a
\* SystemException (the section cannot be created) or with another exception.
DibOutcomes == {"none", "SystemException", "other"}

\* -------------------------------------------------------- RenderManager
\* The coordinator's fields, its backend and the heap, as one record.
RM == [m_mode |-> m_mode, m_dibSection |-> m_dibSection,
       m_direct2DSection |-> m_direct2DSection, m_pixelFormat |-> m_pixelFormat,
       m_dimension |-> m_dimension, m_window |-> m_window,
       d2d |-> d2d, bits |-> bits, nextId |-> nextId, freed |-> freed]

\* The fields when there is no coordinator object, over a given heap.
NoRM(heap) ==
  [m_mode |-> RENDER_MODE_GDI, m_dibSection |-> NULL, m_direct2DSection |-> NULL,
   m_pixelFormat |-> "unset", m_dimension |-> NoSize, m_window |-> "NULL",
   d2d |-> NoD2D, bits |-> 0, nextId |-> heap.nextId, freed |-> heap.freed]

\* Mutant of NewDibSection: the pointer is set although the constructor threw.
NewDibSection_mut(r, g) ==
  [r EXCEPT !.m_dibSection = r.nextId, !.nextId = r.nextId + 1, !.bits = 0]

\* m_dibSection = new DibSection(...), given how the constructor ends
NewDibSection(r, g) ==
  IF g = "none"
  THEN [r EXCEPT !.m_dibSection = r.nextId, !.nextId = r.nextId + 1, !.bits = 0]
  ELSE r

\* m_direct2DSection = new Direct2DSection(...), given the constructed fields
SetDirect2DSection(r, f) ==
  [r EXCEPT !.m_direct2DSection = r.nextId, !.nextId = r.nextId + 1, !.d2d = f, !.bits = 0]

\* How a DibSection constructor call is recorded.
DibNews(g) == <<"DibSection", IF g = "none" THEN "ok" ELSE g>>

\* Mutant of createRendererFallback: the handlers construct the DibSection
\* but leave the mode tag at Direct2D.
createRendererFallback_mut(r, c, g) ==
  [r |-> NewDibSection([r EXCEPT !.m_direct2DSection = NULL], g),
   exc |-> IF g = "none" THEN "none"
           ELSE IF c.exc = "SystemException" THEN g
           ELSE "SystemException",
   news |-> <<<<"Direct2DSection", c.why>>, DibNews(g)>>, calls |-> c.calls]

\* The handlers of createRenderer's try block when m_mode is Direct2D:
\* both downgrade to GDI; a failure of the fallback DibSection leaves the
\* handler as it is (catch SystemException) or as a SystemException (catch ...).
createRendererFallback(r, c, g) ==
  LET r1 == [r EXCEPT !.m_mode = RENDER_MODE_GDI, !.m_direct2DSection = NULL]
  IN  [r |-> NewDibSection(r1, g),
       exc |-> IF g = "none" THEN "none"
               ELSE IF c.exc = "SystemException" THEN g
               ELSE "SystemException",
       news |-> <<<<"Direct2DSection", c.why>>, DibNews(g)>>, calls |-> c.calls]

\* Mutant of createRendererTry: a failed construction is passed on to the
\* caller without the downgrade to GDI.
createRendererTry_mut(r, c, g) ==
  IF c.exc = "none"
  THEN [r |-> SetDirect2DSection(r, c.f), exc |-> "none",
        news |-> <<<<"Direct2DSection", "ok">>>>, calls |-> c.calls]
  ELSE [r |-> r, exc |-> c.exc, news |-> <<<<"Direct2DSection", c.why>>>>, calls |-> c.calls]

\* createRenderer's try block in Direct2D mode, given how the constructor
\* of the Direct2DSection ended (c).
createRendererTry(r, c, g) ==
  IF c.exc = "none"
  THEN [r |-> SetDirect2DSection(r, c.f), exc |-> "none",
        news |-> <<<<"Direct2DSection", "ok">>>>, calls |-> c.calls]
  ELSE createRendererFallback(r, c, g)

\* createRenderer: the fields after it, how it ends, and the backend
\* constructors it ran with their results ("news").
createRenderer(r, o, g) ==
  IF r.m_mode = RENDER_MODE_DIRECT2D
  THEN LET r1 == IF r.m_window = "NULL" \/ ~IsWindow(r.m_window)
                 THEN [r EXCEPT !.m_window = GetDesktopWindow]
                 ELSE r
       IN  IF r1.m_window # "NULL" /\ IsWindow(r1.m_window)
           THEN createRendererTry(r1, NewDirect2DSection(r1.m_dimension, r1.m_window, o), g)
           ELSE \* no valid window: GDI; a throw is rethrown (m_mode is GDI by now)
                [r |-> NewDibSection([r1 EXCEPT !.m_mode = RENDER_MODE_GDI], g),
                 exc |-> g, news |-> <<DibNews(g)>>, calls |-> <<>>]
  ELSE [r |-> NewDibSection(r, g), exc |-> g, news |-> <<DibNews(g)>>, calls |-> <<>>]

\* Mutant of destroyRenderer: the backends are deleted but the pointers are
\* left as they were.
destroyRenderer_mut(r) ==
  [r EXCEPT !.freed = r.freed \cup ({r.m_direct2DSection, r.m_dibSection} \ {NULL}),
            !.d2d = NoD2D, !.bits = 0]

\* The deletions destroyRenderer makes, in order.
destroyNews(r) ==
  (IF r.m_direct2DSection # NULL THEN <<<<"~Direct2DSection", "ok">>>> ELSE <<>>)
    \o (IF r.m_dibSection # NULL THEN <<<<"~DibSection", "ok">>>> ELSE <<>>)

\* The native calls destroyRenderer leads to: ~Direct2DSection runs
\* releaseDirect2D.
destroyCalls(r) ==
  IF r.m_direct2DSection # NULL THEN releaseDirect2D(r.d2d).calls ELSE <<>>

destroyRenderer(r) ==
  LET r1 == IF r.m_direct2DSection # NULL
            THEN [r EXCEPT !.freed = r.freed \cup {r.m_direct2DSection},
                           !.m_direct2DSection = NULL, !.d2d = NoD2D, !.bits = 0]
            ELSE r
  IN  IF r1.m_dibSection # NULL
      THEN [r1 EXCEPT !.freed = r1.freed \cup {r1.m_dibSection},
                      !.m_dibSection = NULL, !.bits = 0]
      ELSE r1

\* Mutant of isD2DAvailable: the factory is not released.
isD2DAvailable_mut(probe) ==
  [ret |-> probe, calls |-> <<Native("D2D1CreateFactory", probe)>>]

\* static bool RenderManager::isD2DAvailable(): what it returns and the
\* native calls it makes; probe: D2D1CreateFactory succeeds and hands out a
\* factory.  It touches no member of any coordinator.
isD2DAvailable(probe) ==
  [ret |-> probe,
   calls |-> IF probe THEN <<"D2D1CreateFactory", "Factory.Release">>
             ELSE <<"D2D1CreateFactory=FAILED">>]

\* The native calls of the probe where a call consults it.
probeCalls(mode, probe) ==
  IF mode = RENDER_MODE_DIRECT2D THEN isD2DAvailable(probe).calls ELSE <<>>

\* Mutant of ctorMode: the requested mode is kept whatever the probe says.
ctorMode_mut(mode, probe) == mode

\* the mode the constructor settles on before it calls createRenderer
ctorMode(mode, probe) ==
  IF mode = RENDER_MODE_DIRECT2D /\ ~probe THEN RENDER_MODE_GDI ELSE mode

\* The constructor's probe comes before its createRenderer, whose result is c.
afterProbe(cs, c) == [c EXCEPT !.calls = cs \o c.calls]

\* RenderManager::RenderManager(pf, dim, compatibleWin, mode)
RenderManagerCtor(heap, pf, dim, compatibleWin, mode, probe, o, g) ==
  LET r0 == [m_mode |-> ctorMode(mode, probe),
             m_dibSection |-> NULL, m_direct2DSection |-> NULL,
             m_pixelFormat |-> pf, m_dimension |-> dim, m_window |-> compatibleWin,
             d2d |-> NoD2D, bits |-> 0, nextId |-> heap.nextId, freed |-> heap.freed]
  IN  afterProbe(probeCalls(mode, probe), createRenderer(r0, o, g))

getBuffer(r) ==
  IF r.m_mode = RENDER_MODE_DIRECT2D /\ r.m_direct2DSection # NULL
  THEN (IF r.d2d.m_bitmapBits THEN r.m_direct2DSection ELSE NULL)
  ELSE IF r.m_dibSection # NULL THEN r.m_dibSection
  ELSE NULL

\* Mutant of probeRefuses: the availability check is left out.
probeRefuses_mut(mode, probe) == FALSE

\* setRenderMode's first exit: Direct2D asked for and the probe fails
probeRefuses(mode, probe) == mode = RENDER_MODE_DIRECT2D /\ ~probe

\* setRenderMode's second exit: the mode is the current one
sameMode(r, mode) == mode = r.m_mode

\* what setRenderMode returns on its second exit
sameModeResult == FALSE

\* Mutant of setRenderModeDestroy: the old backend is not destroyed.
setRenderModeDestroy_mut(r) == r

\* what setRenderMode does to the old backend before it creates the new one
setRenderModeDestroy(r) == destroyRenderer(r)

\* what setRenderMode returns once createRenderer has returned
setRenderModeResult(r, mode) == TRUE

\* How setRenderMode ends once createRenderer has run with result c, after
\* the native calls cs of the probe and of destroyRenderer.
setRenderModeEnd(cs, mode, c) ==
  [r |-> c.r,
   ret |-> IF c.exc = "none" THEN setRenderModeResult(c.r, mode) ELSE FALSE,
   exc |-> c.exc, news |-> c.news, calls |-> cs \o c.calls]

\* bool RenderManager::setRenderMode(mode): the fields after it, what it
\* returns ("ret" is meaningful when exc = "none") and how it ends.
setRenderMode(r, mode, probe, o, g) ==
  IF probeRefuses(mode, probe)
  THEN [r |-> r, ret |-> FALSE, exc |-> "none", news |-> <<>>,
        calls |-> probeCalls(mode, probe)]
  ELSE IF sameMode(r, mode)
  THEN [r |-> r, ret |-> sameModeResult, exc |-> "none", news |-> <<>>,
        calls |-> probeCalls(mode, probe)]
  ELSE setRenderModeEnd(probeCalls(mode, probe) \o destroyCalls(r), mode,
                         createRenderer([setRenderModeDestroy(r) EXCEPT !.m_mode = mode], o, g))

\* ------------------------------------------- Direct2DSection, per call
\* Direct2DSection::blitFromDibSection(rect, flags): the native calls it
\* makes, and the rectangles it hands to DrawBitmap (NoDraw when none).
NoDraw == [src |-> <<>>, dst |-> <<>>]

ClampRB(rect, size) ==
  [rect EXCEPT !.right = IF rect.right > size.width THEN size.width ELSE rect.right,
               !.bottom = IF rect.bottom > size.height THEN size.height ELSE rect.bottom]

\* Mutant of D2DBlitFrom: the render target is cleared before the upload.
D2DBlitFrom_mut(f, rect, copyOk, endOk) ==
  IF f.m_pRenderTarget = "NULL" \/ ~f.m_pBitmap
  THEN [calls |-> <<>>, draw |-> NoDraw]
  ELSE IF ~copyOk
  THEN [calls |-> <<"BeginDraw", "Clear", "CopyFromMemory=FAILED", "EndDraw">>, draw |-> NoDraw]
  ELSE [calls |-> <<"BeginDraw", "Clear", "CopyFromMemory", "DrawBitmap", Native("EndDraw", endOk)>>,
        draw |-> [src |-> ClampRB(rect, f.bitmapSize), dst |-> ClampRB(rect, f.rtSize)]]

\* copyOk: CopyFromMemory succeeds; endOk: the closing EndDraw succeeds.
D2DBlitFrom(f, rect, copyOk, endOk) ==
  IF f.m_pRenderTarget = "NULL" \/ ~f.m_pBitmap
  THEN [calls |-> <<>>, draw |-> NoDraw]
  ELSE IF ~copyOk
  THEN [calls |-> <<"BeginDraw", "CopyFromMemory=FAILED", "EndDraw">>, draw |-> NoDraw]
  ELSE [calls |-> <<"BeginDraw", "CopyFromMemory", "Clear", "DrawBitmap", Native("EndDraw", endOk)>>,
        draw |-> [src |-> ClampRB(rect, f.bitmapSize), dst |-> ClampRB(rect, f.rtSize)]]

\* Mutant of D2DStretch3: a failed upload returns with the drawing still open.
D2DStretch3_mut(f, srcRect, dstRect, copyOk, endOk) ==
  IF f.m_pRenderTarget = "NULL" \/ ~f.m_pBitmap
  THEN [calls |-> <<>>, draw |-> NoDraw]
  ELSE IF ~copyOk
  THEN [calls |-> <<"BeginDraw", "CopyFromMemory=FAILED">>, draw |-> NoDraw]
  ELSE [calls |-> <<"BeginDraw", "CopyFromMemory", "Clear", "DrawBitmap", Native("EndDraw", endOk)>>,
        draw |-> [src |-> srcRect, dst |-> ClampRB(dstRect, f.rtSize)]]

\* Direct2DSection::stretchFromDibSection(srcRect, dstRect, flags)
D2DStretch3(f, srcRect, dstRect, copyOk, endOk) ==
  IF f.m_pRenderTarget = "NULL" \/ ~f.m_pBitmap
  THEN [calls |-> <<>>, draw |-> NoDraw]
  ELSE IF ~copyOk
  THEN [calls |-> <<"BeginDraw", "CopyFromMemory=FAILED", "EndDraw">>, draw |-> NoDraw]
  ELSE [calls |-> <<"BeginDraw", "CopyFromMemory", "Clear", "DrawBitmap", Native("EndDraw", endOk)>>,
        draw |-> [src |-> srcRect, dst |-> ClampRB(dstRect, f.rtSize)]]

\* Direct2DSection::stretchFromDibSection(dstRect, srcRect): the public
\* overload names its first parameter dstRect and passes (srcRect, dstRect) on.
D2DStretch(f, dstRect, srcRect, copyOk, endOk) == D2DStretch3(f, srcRect, dstRect, copyOk, endOk)

\* Direct2DSection::resize(newSize): the fields after it and the native call
\* made.  nativeOk: Resize / BindDC succeeds; hdcOk: GetDC gives a DC.
ResizeTo(newSize) ==
  [width |-> newSize.right - newSize.left, height |-> newSize.bottom - newSize.top]

\* Mutant of resizeNeeded: the size comparison is left out.
resizeNeeded_mut(f, new) == TRUE

\* resize's test: the new size differs from the render target's pixel size
resizeNeeded(f, new) == new.width # f.rtSize.width \/ new.height # f.rtSize.height

\* Mutant of D2DResize: every target is resized in place, and the bitmap is
\* recreated at the new size.
D2DResize_mut(f, newSize, nativeOk, hdcOk) ==
  IF resizeNeeded(f, ResizeTo(newSize))
  THEN [f |-> IF nativeOk THEN [f EXCEPT !.rtSize = ResizeTo(newSize),
                                         !.bitmapSize = ResizeTo(newSize)]
              ELSE f,
        calls |-> <<Native("Resize", nativeOk)>>]
  ELSE [f |-> f, calls |-> <<>>]

D2DResize(f, newSize, nativeOk, hdcOk) ==
  LET new == ResizeTo(newSize)
      done == IF nativeOk THEN [f EXCEPT !.rtSize = new] ELSE f
  IN  IF resizeNeeded(f, new)
      THEN IF f.m_pHwndRenderTarget
           THEN [f |-> done, calls |-> <<Native("Resize", nativeOk)>>]
           ELSE IF f.m_pDCRenderTarget
           THEN IF hdcOk
                THEN [f |-> done, calls |-> <<"GetDC", Native("BindDC", nativeOk), "ReleaseDC">>]
                ELSE [f |-> f, calls |-> <<"GetDC=NULL">>]
           ELSE [f |-> f, calls |-> <<>>]
      ELSE [f |-> f, calls |-> <<>>]

\* --------------------------------------------- RenderManager, per call
\* Which backend a blit call of the coordinator reaches.
route(r) ==
  IF r.m_mode = RENDER_MODE_DIRECT2D /\ r.m_direct2DSection # NULL THEN "d2d"
  ELSE IF r.m_dibSection # NULL THEN "dib"
  ELSE "none"

\* Direct2DSection::blitToDibSection and blitTransparentToDibSection
D2DBlitTo == "SystemException"

\* Mutant of blitToDibSection: the Direct2D branch captures into the buffer
\* the way the raster backend does, instead of letting the refusal through.
blitToDibSection_mut(r, screen) ==
  IF r.m_dibSection = NULL /\ r.m_direct2DSection = NULL
  THEN [r |-> r, exc |-> "none"]
  ELSE [r |-> [r EXCEPT !.bits = screen], exc |-> "none"]

\* RenderManager::blitToDibSection / blitTransparentToDibSection: the screen
\* content (pixel value screen) is captured by the raster backend only.
blitToDibSection(r, screen) ==
  IF route(r) = "d2d" THEN [r |-> r, exc |-> D2DBlitTo]
  ELSE IF route(r) = "dib" THEN [r |-> [r EXCEPT !.bits = screen], exc |-> "none"]
  ELSE [r |-> r, exc |-> "none"]

\* RenderManager::blitFromDibSection
blitFromDibSection(r, rect, copyOk, endOk) ==
  IF route(r) = "d2d" THEN D2DBlitFrom(r.d2d, rect, copyOk, endOk)
  ELSE [calls |-> <<>>, draw |-> NoDraw]

\* RenderManager::stretchFromDibSection
stretchFromDibSection(r, srcRect, dstRect, copyOk, endOk) ==
  IF route(r) = "d2d" THEN D2DStretch(r.d2d, srcRect, dstRect, copyOk, endOk)
  ELSE [calls |-> <<>>, draw |-> NoDraw]

\* Mutant of resize: in GDI mode the new size is taken over as the stored
\* dimension.
resizeRaster_mut(r, newSize, nativeOk, hdcOk) ==
  IF r.m_mode = RENDER_MODE_DIRECT2D
  THEN IF r.m_direct2DSection = NULL
       THEN [r |-> r, calls |-> <<>>, exc |-> "UB"]
       ELSE LET c == D2DResize(r.d2d, newSize, nativeOk, hdcOk)
            IN  [r |-> [r EXCEPT !.d2d = c.f], calls |-> c.calls, exc |-> "none"]
  ELSE [r |-> [r EXCEPT !.m_dimension = ResizeTo(newSize)], calls |-> <<>>, exc |-> "none"]

\* Mutant of resize: a failed native call is reported with an exception.
resize_mut(r, newSize, nativeOk, hdcOk) ==
  IF r.m_mode = RENDER_MODE_DIRECT2D
  THEN IF r.m_direct2DSection = NULL
       THEN [r |-> r, calls |-> <<>>, exc |-> "UB"]
       ELSE LET c == D2DResize(r.d2d, newSize, nativeOk, hdcOk)
            IN  [r |-> [r EXCEPT !.d2d = c.f], calls |-> c.calls,
                 exc |-> IF \E i \in 1..Len(c.calls) : c.calls[i] \in {"Resize=FAILED", "BindDC=FAILED"}
                         THEN "SystemException" ELSE "none"]
  ELSE [r |-> r, calls |-> <<>>, exc |-> "none"]

\* RenderManager::resize: m_direct2DSection is used unchecked when the mode
\* is Direct2D; with a null pointer the behaviour is undefined ("UB").
resize(r, newSize, nativeOk, hdcOk) ==
  IF r.m_mode = RENDER_MODE_DIRECT2D
  THEN IF r.m_direct2DSection = NULL
       THEN [r |-> r, calls |-> <<>>, exc |-> "UB"]
       ELSE LET c == D2DResize(r.d2d, newSize, nativeOk, hdcOk)
            IN  [r |-> [r EXCEPT !.d2d = c.f], calls |-> c.calls, exc |-> "none"]
  ELSE [r |-> r, calls |-> <<>>, exc |-> "none"]

\* ------------------------------------------------------- DibFrameBuffer
\* The facade with its coordinator: rm (the coordinator's record),
\* m_renderManager (is there a coordinator), m_fb (the FrameBuffer member).
F == [rm |-> RM, m_renderManager |-> m_renderManager, m_fb |-> m_fb]

\* FrameBuffer::setPropertiesWithoutResize and FrameBuffer::setBuffer, as the
\* facade uses them on m_fb: they store what they are given.
FB_setPropertiesWithoutResize(fb, newDim, pf) == [fb EXCEPT !.dim = newDim, !.pf = pf]
FB_setBuffer(fb, newBuffer) == [fb EXCEPT !.buffer = newBuffer]

\* delete m_renderManager: ~RenderManager runs destroyRenderer
DeleteRM(r) == NoRM(destroyRenderer(r))

releaseRenderManager(f) ==
  IF f.m_renderManager
  THEN [f EXCEPT !.m_fb = FB_setBuffer(f.m_fb, NULL), !.rm = DeleteRM(f.rm),
                 !.m_renderManager = FALSE]
  ELSE f

\* results of the Direct2D natives, for calls that never consult them
AllOk == [alloc |-> TRUE, factory |-> TRUE, client |-> NoSize, hwndRT |-> TRUE,
          dcRT |-> TRUE, bind |-> TRUE, bitmap |-> TRUE, malloc |-> TRUE]

\* Mutant of initialMode: the facade creates its coordinator in Direct2D mode.
initialMode_mut == RENDER_MODE_DIRECT2D

\* the mode the facade creates its coordinator in
initialMode == RENDER_MODE_GDI

\* DibFrameBuffer::getRenderMode(): GDI while there is no coordinator
facadeGetRenderMode(f) ==
  IF ~f.m_renderManager THEN RENDER_MODE_GDI ELSE f.rm.m_mode

\* How the deletion of the previous coordinator is recorded.
ReleaseNews(f) == IF f.m_renderManager THEN <<<<"~RenderManager", "ok">>>> ELSE <<>>

\* The native calls the deletion of the previous coordinator leads to.
ReleaseCalls(f) == IF f.m_renderManager THEN destroyCalls(f.rm) ELSE <<>>

\* Mutant of updateRenderManager: the previous coordinator is not released;
\* m_renderManager is overwritten with the new one.
updateRenderManager_mut(f, newDim, pf, compatibleWindow, g) ==
  LET win == IF compatibleWindow = "NULL" \/ ~IsWindow(compatibleWindow)
             THEN GetDesktopWindow ELSE compatibleWindow
      c == RenderManagerCtor(f.rm, pf, newDim, win, initialMode, TRUE, AllOk, g)
  IN  IF c.exc = "none"
      THEN [f |-> [f EXCEPT !.rm = c.r, !.m_renderManager = TRUE],
            buffer |-> getBuffer(c.r), exc |-> "none", news |-> ReleaseNews(f) \o c.news,
            calls |-> ReleaseCalls(f) \o c.calls]
      ELSE [f |-> releaseRenderManager(f), buffer |-> NULL, exc |-> c.exc,
            news |-> ReleaseNews(f) \o c.news, calls |-> ReleaseCalls(f) \o c.calls]

\* updateRenderManager's try block, on the facade f1 whose previous coordinator
\* has been released (f is the facade before that), given how the
\* constructor of the new coordinator ended (c).
updateRenderManagerTry(f, f1, c) ==
  IF c.exc = "none"
  THEN [f |-> [f1 EXCEPT !.rm = c.r, !.m_renderManager = TRUE],
        buffer |-> getBuffer(c.r), exc |-> "none", news |-> ReleaseNews(f) \o c.news,
        calls |-> ReleaseCalls(f) \o c.calls]
  ELSE [f |-> releaseRenderManager(f1), buffer |-> NULL, exc |-> c.exc,
        news |-> ReleaseNews(f) \o c.news, calls |-> ReleaseCalls(f) \o c.calls]

updateRenderManager(f, newDim, pf, compatibleWindow, g) ==
  LET win == IF compatibleWindow = "NULL" \/ ~IsWindow(compatibleWindow)
             THEN GetDesktopWindow ELSE compatibleWindow
  IN  updateRenderManagerTry(f, releaseRenderManager(f),
                             RenderManagerCtor(releaseRenderManager(f).rm, pf, newDim, win,
                                               initialMode, TRUE, AllOk, g))

\* How setProperties ends once updateRenderManager has run with result u.
setPropertiesEnd(u) ==
  IF u.exc = "none"
  THEN [f |-> [u.f EXCEPT !.m_fb = FB_setBuffer(u.f.m_fb, u.buffer)], exc |-> "none",
        news |-> u.news, calls |-> u.calls]
  ELSE [f |-> u.f, exc |-> u.exc, news |-> u.news, calls |-> u.calls]

\* DibFrameBuffer::setProperties(newDim, pixelFormat, compatibleWindow)
setProperties(f, newDim, pf, compatibleWindow, g) ==
  setPropertiesEnd(
    updateRenderManager([f EXCEPT !.m_fb = FB_setPropertiesWithoutResize(f.m_fb, newDim, pf)],
                        newDim, pf, compatibleWindow, g))

\* checkRenderManagerValid throws when there is no coordinator
checkRenderManagerValid(f) == IF f.m_renderManager THEN "none" ELSE "Exception"

\* Mutant of facadeRebind: the buffer pointer is refreshed whatever
\* setRenderMode returned.
facadeRebind_mut(f, r, status) == FB_setBuffer(f.m_fb, getBuffer(r))

\* what the facade does with m_fb once the coordinator's setRenderMode returned
facadeRebind(f, r, status) ==
  IF status THEN FB_setBuffer(f.m_fb, getBuffer(r)) ELSE f.m_fb

\* How DibFrameBuffer::setRenderMode ends once the coordinator's
\* setRenderMode has run with result c.
facadeSetRenderModeEnd(f, c) ==
  IF c.exc # "none"
  THEN [f |-> [f EXCEPT !.rm = c.r], ret |-> FALSE, exc |-> c.exc, news |-> c.news,
        calls |-> c.calls]
  ELSE [f |-> [f EXCEPT !.rm = c.r, !.m_fb = facadeRebind(f, c.r, c.ret)],
        ret |-> c.ret, exc |-> "none", news |-> c.news, calls |-> c.calls]

\* DibFrameBuffer::setRenderMode(mode)
facadeSetRenderMode(f, mode, probe, o, g) ==
  IF checkRenderManagerValid(f) # "none"
  THEN [f |-> f, ret |-> FALSE, exc |-> checkRenderManagerValid(f), news |-> <<>>,
        calls |-> <<>>]
  ELSE facadeSetRenderModeEnd(f, setRenderMode(f.rm, mode, probe, o, g))

\* The mutators the facade refuses: each throws and does nothing else.
Mutators == {"assignProperties", "clone", "setDimension(Dimension)", "setDimension(Rect)",
             "setEmptyDimension", "setEmptyPixelFmt", "setPropertiesWithoutResize",
             "setPixelFormat", "setProperties(Dimension,PixelFormat)",
             "setProperties(Rect,PixelFormat)", "setBuffer"}

\* Mutant of facadeMutator: setBuffer is passed on to m_fb, as the base
\* class does, instead of being refused.
facadeMutator_mut(f, name) ==
  IF name = "setBuffer"
  THEN [f |-> [f EXCEPT !.m_fb = [f.m_fb EXCEPT !.buffer = NULL]], exc |-> "none"]
  ELSE [f |-> f, exc |-> "Exception"]

facadeMutator(f, name) == [f |-> f, exc |-> "Exception"]

\* ------------------------------------------------------------ the calls
Bool(b) == IF b THEN "true" ELSE "false"

Call(op, arg, probe, ret, exc, news, draw) ==
  [op |-> op, arg |-> arg, probe |-> probe, ret |-> ret, exc |-> exc,
   news |-> news, draw |-> draw]

SetRM(r) ==
  /\ m_mode' = r.m_mode
  /\ m_dibSection' = r.m_dibSection
  /\ m_direct2DSection' = r.m_direct2DSection
  /\ m_pixelFormat' = r.m_pixelFormat
  /\ m_dimension' = r.m_dimension
  /\ m_window' = r.m_window
  /\ d2d' = r.d2d
  /\ bits' = r.bits
  /\ nextId' = r.nextId
  /\ freed' = r.freed

SetF(f) ==
  /\ SetRM(f.rm)
  /\ m_renderManager' = f.m_renderManager
  /\ m_fb' = f.m_fb

\* The inputs a mode switch consults: the probe when Direct2D is asked for,
\* the Direct2D natives when a Direct2DSection is constructed, the DibSection
\* constructor when one is constructed.
ProbeInputs(mode) == IF mode = RENDER_MODE_DIRECT2D THEN BOOLEAN ELSE {TRUE}
SwitchRuns(mode, probe) == m_renderManager /\ ~probeRefuses(mode, probe) /\ mode # m_mode
D2DInputs(runs, mode) == IF runs /\ mode = RENDER_MODE_DIRECT2D THEN D2DOutcomes ELSE {AllOk}
DibInputs(runs) == IF runs THEN DibOutcomes ELSE {"none"}

FreshFB == [dim |-> NoSize, pf |-> "unset", buffer |-> NULL]

Init ==
  /\ m_mode = RENDER_MODE_GDI
  /\ m_dibSection = NULL
  /\ m_direct2DSection = NULL
  /\ m_pixelFormat = "unset"
  /\ m_dimension = NoSize
  /\ m_window = "NULL"
  /\ d2d = NoD2D
  /\ bits = 0
  /\ nextId = 1
  /\ freed = {}
  /\ m_renderManager = FALSE
  /\ m_fb = FreshFB
  /\ winValid = TRUE
  /\ last = [op |-> "new", arg |-> "-", probe |-> "-", ret |-> "-", exc |-> "none",
             news |-> <<>>, draw |-> NoDraw]
  /\ calls = <<>>
  /\ m_token = INVALID_HANDLE_VALUE
  /\ m_dupToken = INVALID_HANDLE_VALUE
  /\ m_serverPipe = INVALID_HANDLE_VALUE
  /\ m_initialized = FALSE
  /\ server = FALSE
  /\ peer = "none"
  /\ streams = {}
  /\ buf = <<>>
  /\ written = <<>>
  /\ readOut = <<>>
  /\ hNext = 1
  /\ hOpen = {}
  /\ hBadClose = {}
  /\ identity = "self"

\* ------------------------------------------------- calls on the facade
F_setProperties ==
  \E newDim \in Dimensions, pf \in PixelFormats, hwnd \in HWNDs, g \in DibOutcomes :
    LET c == setProperties(F, newDim, pf, hwnd, g)
    IN  /\ nextId <= MaxInst
        /\ SetF(c.f)
        /\ last' = Call("setProperties", "-", "-", "-", c.exc, c.news, NoDraw)
        /\ calls' = c.calls
        /\ UNCHANGED winValid
        /\ UNCHANGED otherVars

F_setRenderMode ==
  \E mode \in RenderMode :
  \E probe \in ProbeInputs(mode) :
  \E o \in D2DInputs(SwitchRuns(mode, probe), mode), g \in DibInputs(SwitchRuns(mode, probe)) :
    LET c == facadeSetRenderMode(F, mode, probe, o, g)
    IN  /\ nextId <= MaxInst
        /\ SetF(c.f)
        /\ last' = Call("setRenderMode", mode,
                        IF mode = RENDER_MODE_DIRECT2D /\ m_renderManager THEN Bool(probe) ELSE "-",
                        IF c.exc = "none" THEN Bool(c.ret) ELSE "-", c.exc, c.news, NoDraw)
        /\ calls' = c.calls
        /\ UNCHANGED winValid
        /\ UNCHANGED otherVars

\* blitToDibSection and blitTransparentToDibSection (transparent = TRUE)
F_blitToDibSection ==
  \E transparent \in BOOLEAN, rect \in Rects, screen \in PixVals :
    LET chk == checkRenderManagerValid(F)
        c == blitToDibSection(RM, screen)
    IN  /\ IF chk # "none"
           THEN /\ UNCHANGED <<rmVars, d2d, bits, nextId, freed>>
                /\ last' = Call(IF transparent THEN "blitTransparentToDibSection" ELSE "blitToDibSection",
                                "-", "-", "-", chk, <<>>, NoDraw)
           ELSE /\ SetRM(c.r)
                /\ last' = Call(IF transparent THEN "blitTransparentToDibSection" ELSE "blitToDibSection",
                                "-", "-", "-", c.exc, <<>>, NoDraw)
        /\ calls' = <<>>
        /\ UNCHANGED <<m_renderManager, m_fb, winValid>>
        /\ UNCHANGED otherVars

F_blitFromDibSection ==
  \E rect \in DrawRects, copyOk \in BOOLEAN, endOk \in BOOLEAN :
    LET chk == checkRenderManagerValid(F)
        c == blitFromDibSection(RM, rect, copyOk, endOk)
    IN  /\ IF chk # "none"
           THEN /\ last' = Call("blitFromDibSection", "-", "-", "-", chk, <<>>, NoDraw)
                /\ calls' = <<>>
           ELSE /\ last' = Call("blitFromDibSection", "-", "-", "-", "none", <<>>, c.draw)
                /\ calls' = c.calls
        /\ UNCHANGED <<rmVars, d2d, bits, nextId, freed, m_renderManager, m_fb, winValid>>
        /\ UNCHANGED otherVars

F_stretchFromDibSection ==
  \E srcRect \in DrawRects, dstRect \in Rects, copyOk \in BOOLEAN, endOk \in BOOLEAN :
    LET chk == checkRenderManagerValid(F)
        c == stretchFromDibSection(RM, srcRect, dstRect, copyOk, endOk)
    IN  /\ IF chk # "none"
           THEN /\ last' = Call("stretchFromDibSection", [srcRect |-> srcRect, dstRect |-> dstRect],
                                "-", "-", chk, <<>>, NoDraw)
                /\ calls' = <<>>
           ELSE /\ last' = Call("stretchFromDibSection", [srcRect |-> srcRect, dstRect |-> dstRect],
                                "-", "-", "none", <<>>, c.draw)
                /\ calls' = c.calls
        /\ UNCHANGED <<rmVars, d2d, bits, nextId, freed, m_renderManager, m_fb, winValid>>
        /\ UNCHANGED otherVars

F_resize ==
  \E newSize \in Rects, nativeOk \in BOOLEAN, hdcOk \in BOOLEAN :
    LET chk == checkRenderManagerValid(F)
        c == resize(RM, newSize, nativeOk, hdcOk)
    IN  /\ IF chk # "none"
           THEN /\ UNCHANGED <<rmVars, d2d, bits, nextId, freed>>
                /\ last' = Call("resize", newSize, "-", "-", chk, <<>>, NoDraw)
                /\ calls' = <<>>
           ELSE /\ SetRM(c.r)
                /\ last' = Call("resize", newSize, "-", "-", c.exc, <<>>, NoDraw)
                /\ calls' = c.calls
        /\ UNCHANGED <<m_renderManager, m_fb, winValid>>
        /\ UNCHANGED otherVars

F_mutator ==
  \E name \in Mutators :
    LET c == facadeMutator(F, name)
    IN  /\ SetF(c.f)
        /\ last' = Call("mutator", "-", "-", "-", c.exc, <<>>, NoDraw)
        /\ calls' = <<>>
        /\ UNCHANGED winValid
        /\ UNCHANGED otherVars

\* A producer writes pixels through the facade (fillRect on m_fb); the write
\* lands in the live backend's buffer when m_fb points at it.
F_fillRect ==
  \E color \in PixVals :
    /\ m_fb.buffer # NULL
    /\ m_fb.buffer = getBuffer(RM)
    /\ bits' = color
    /\ last' = Call("fillRect", "-", "-", "-", "none", <<>>, NoDraw)
    /\ calls' = <<>>
    /\ UNCHANGED <<rmVars, d2d, nextId, freed, m_renderManager, m_fb, winValid>>
    /\ UNCHANGED otherVars

\* The application window is destroyed.
WindowClosed ==
  /\ winValid
  /\ winValid' = FALSE
  /\ last' = Call("WindowClosed", "-", "-", "-", "none", <<>>, NoDraw)
  /\ calls' = <<>>
  /\ UNCHANGED <<rmVars, d2d, bits, nextId, freed, m_renderManager, m_fb>>
  /\ UNCHANGED otherVars

\* ------------------------------------------- calls on the coordinator
\* A RenderManager used directly by its owner; m_renderManager tells whether
\* the owner holds one.  A constructor that throws leaves no object.
R_new ==
  \E pf \in PixelFormats, dim \in Dimensions, compatibleWin \in HWNDs, mode \in RenderMode :
  \E probe \in ProbeInputs(mode) :
  \E o \in (IF mode = RENDER_MODE_DIRECT2D /\ probe THEN D2DOutcomes ELSE {AllOk}), g \in DibOutcomes :
    LET c == RenderManagerCtor(RM, pf, dim, compatibleWin, mode, probe, o, g)
    IN  /\ ~m_renderManager
        /\ nextId <= MaxInst
        /\ IF c.exc = "none"
           THEN SetRM(c.r) /\ m_renderManager' = TRUE
           ELSE SetRM(NoRM(c.r)) /\ m_renderManager' = FALSE
        /\ last' = Call("RenderManager", mode,
                        IF mode = RENDER_MODE_DIRECT2D THEN Bool(probe) ELSE "-",
                        "-", c.exc, c.news, NoDraw)
        /\ calls' = c.calls
        /\ UNCHANGED <<m_fb, winValid>>
        /\ UNCHANGED otherVars

R_delete ==
  /\ m_renderManager
  /\ SetRM(DeleteRM(RM))
  /\ m_renderManager' = FALSE
  /\ last' = Call("~RenderManager", "-", "-", "-", "none", destroyNews(RM), NoDraw)
  /\ calls' = destroyCalls(RM)
  /\ UNCHANGED <<m_fb, winValid>>
  /\ UNCHANGED otherVars

R_setRenderMode ==
  \E mode \in RenderMode :
  \E probe \in ProbeInputs(mode) :
  \E o \in D2DInputs(SwitchRuns(mode, probe), mode), g \in DibInputs(SwitchRuns(mode, probe)) :
    LET c == setRenderMode(RM, mode, probe, o, g)
    IN  /\ m_renderManager
        /\ nextId <= MaxInst
        /\ SetRM(c.r)
        /\ last' = Call("setRenderMode", mode,
                        IF mode = RENDER_MODE_DIRECT2D THEN Bool(probe) ELSE "-",
                        IF c.exc = "none" THEN Bool(c.ret) ELSE "-", c.exc, c.news, NoDraw)
        /\ calls' = c.calls
        /\ UNCHANGED <<m_renderManager, m_fb, winValid>>
        /\ UNCHANGED otherVars

R_blitToDibSection ==
  \E transparent \in BOOLEAN, rect \in Rects, screen \in PixVals :
    LET c == blitToDibSection(RM, screen)
    IN  /\ m_renderManager
        /\ SetRM(c.r)
        /\ last' = Call(IF transparent THEN "blitTransparentToDibSection" ELSE "blitToDibSection",
                        "-", "-", "-", c.exc, <<>>, NoDraw)
        /\ calls' = <<>>
        /\ UNCHANGED <<m_renderManager, m_fb, winValid>>
        /\ UNCHANGED otherVars

R_blitFromDibSection ==
  \E rect \in DrawRects, copyOk \in BOOLEAN, endOk \in BOOLEAN :
    LET c == blitFromDibSection(RM, rect, copyOk, endOk)
    IN  /\ m_renderManager
        /\ last' = Call("blitFromDibSection", "-", "-", "-", "none", <<>>, c.draw)
        /\ calls' = c.calls
        /\ UNCHANGED <<rmVars, d2d, bits, nextId, freed, m_renderManager, m_fb, winValid>>
        /\ UNCHANGED otherVars

R_stretchFromDibSection ==
  \E srcRect \in DrawRects, dstRect \in Rects, copyOk \in BOOLEAN, endOk \in BOOLEAN :
    LET c == stretchFromDibSection(RM, srcRect, dstRect, copyOk, endOk)
    IN  /\ m_renderManager
        /\ last' = Call("stretchFromDibSection", [srcRect |-> srcRect, dstRect |-> dstRect],
                                "-", "-", "none", <<>>, c.draw)
        /\ calls' = c.calls
        /\ UNCHANGED <<rmVars, d2d, bits, nextId, freed, m_renderManager, m_fb, winValid>>
        /\ UNCHANGED otherVars

R_resize ==
  \E newSize \in Rects, nativeOk \in BOOLEAN, hdcOk \in BOOLEAN :
    LET c == resize(RM, newSize, nativeOk, hdcOk)
    IN  /\ m_renderManager
        /\ SetRM(c.r)
        /\ last' = Call("resize", newSize, "-", "-", c.exc, <<>>, NoDraw)
        /\ calls' = c.calls
        /\ UNCHANGED <<m_renderManager, m_fb, winValid>>
        /\ UNCHANGED otherVars

\* A producer writes pixels into the buffer getBuffer() hands out.
R_writeBuffer ==
  \E color \in PixVals :
    /\ m_renderManager
    /\ getBuffer(RM) # NULL
    /\ bits' = color
    /\ last' = Call("writeBuffer", "-", "-", "-", "none", <<>>, NoDraw)
    /\ calls' = <<>>
    /\ UNCHANGED <<rmVars, d2d, nextId, freed, m_renderManager, m_fb, winValid>>
    /\ UNCHANGED otherVars

\* RenderManager::isD2DAvailable(), called by anyone at any time: it is a
\* public static member and has no coordinator to work on.
R_isD2DAvailable ==
  \E probe \in BOOLEAN :
    LET c == isD2DAvailable(probe)
    IN  /\ last' = Call("isD2DAvailable", "-", "-", Bool(c.ret), "none", <<>>, NoDraw)
        /\ calls' = c.calls
        /\ UNCHANGED renderVars
        /\ UNCHANGED otherVars

NextRM ==
  \/ R_new
  \/ R_isD2DAvailable
  \/ R_delete
  \/ R_setRenderMode
  \/ R_blitToDibSection
  \/ R_blitFromDibSection
  \/ R_stretchFromDibSection
  \/ R_resize
  \/ R_writeBuffer
  \/ WindowClosed

SpecRM == Init /\ [][NextRM]_vars

Next ==
  \/ F_setProperties
  \/ F_setRenderMode
  \/ F_blitToDibSection
  \/ F_blitFromDibSection
  \/ F_stretchFromDibSection
  \/ F_resize
  \/ F_mutator
  \/ F_fillRect
  \/ WindowClosed

Spec == Init /\ [][Next]_vars

\* ---------------------------------------------------------- handle table
\* The operating system's handles, as one record.
OS == [hNext |-> hNext, hOpen |-> hOpen, hBadClose |-> hBadClose]

\* CloseHandle(h): closes an open handle; a handle that is not open (closed
\* before, or never handed out) is noted in hBadClose.
CloseHandle(os, h) ==
  IF h \in os.hOpen THEN [os EXCEPT !.hOpen = os.hOpen \ {h}]
  ELSE [os EXCEPT !.hBadClose = os.hBadClose \cup {h}]

\* A call that hands out a handle: the next value, now open.
NewHandle(os) == [os EXCEPT !.hOpen = os.hOpen \cup {os.hNext}, !.hNext = os.hNext + 1]

SetOS(os) ==
  /\ hNext' = os.hNext
  /\ hOpen' = os.hOpen
  /\ hBadClose' = os.hBadClose

\* ----------------------------------------------------------- Impersonator
Imp == [m_token |-> m_token, m_dupToken |-> m_dupToken, os |-> OS, identity |-> identity]

\* Impersonator::impersonateAsUser(token).  nameOk: WTS::getTokenUserName
\* returns; dupOk: DuplicateToken succeeds; impOk: ImpersonateLoggedOnUser
\* succeeds.
impersonateAsUser(i, token, nameOk, dupOk, impOk) ==
  LET i1 == IF i.m_token # INVALID_HANDLE_VALUE
            THEN [i EXCEPT !.os = CloseHandle(i.os, i.m_token)]
            ELSE i
      c1 == IF i.m_token # INVALID_HANDLE_VALUE THEN <<"CloseHandle">> ELSE <<>>
      i2 == [i1 EXCEPT !.m_token = token]
      i3 == [i2 EXCEPT !.m_dupToken = i2.os.hNext, !.os = NewHandle(i2.os)]
  IN  IF ~nameOk
      THEN [i |-> i2, exc |-> "Exception", calls |-> c1]
      ELSE IF ~dupOk
      THEN [i |-> i2, exc |-> "SystemException", calls |-> c1 \o <<"DuplicateToken=FAILED">>]
      ELSE IF ~impOk
      THEN [i |-> i3, exc |-> "SystemException",
            calls |-> c1 \o <<"DuplicateToken", "ImpersonateLoggedOnUser=FAILED">>]
      ELSE [i |-> [i3 EXCEPT !.identity = "user"], exc |-> "none",
            calls |-> c1 \o <<"DuplicateToken", "ImpersonateLoggedOnUser">>]

\* Mutant of revertToSelf: the stored handles are closed but not reset.
revertToSelf_mut(i, revertOk) ==
  LET i1 == IF i.m_dupToken # INVALID_HANDLE_VALUE
            THEN [i EXCEPT !.os = CloseHandle(i.os, i.m_dupToken)]
            ELSE i
      i2 == IF i1.m_token # INVALID_HANDLE_VALUE
            THEN [i1 EXCEPT !.os = CloseHandle(i1.os, i1.m_token)]
            ELSE i1
  IN  [i |-> IF revertOk THEN [i2 EXCEPT !.identity = "self"] ELSE i2,
       exc |-> IF revertOk THEN "none" ELSE "SystemException",
       calls |-> <<Native("RevertToSelf", revertOk)>>]

\* Impersonator::revertToSelf().  revertOk: RevertToSelf succeeds.
revertToSelf(i, revertOk) ==
  LET i1 == IF i.m_dupToken # INVALID_HANDLE_VALUE
            THEN [i EXCEPT !.os = CloseHandle(i.os, i.m_dupToken)]
            ELSE i
      c1 == IF i.m_dupToken # INVALID_HANDLE_VALUE THEN <<"CloseHandle">> ELSE <<>>
      i2 == IF i1.m_token # INVALID_HANDLE_VALUE
            THEN [i1 EXCEPT !.os = CloseHandle(i1.os, i1.m_token)]
            ELSE i1
      c2 == IF i1.m_token # INVALID_HANDLE_VALUE THEN <<"CloseHandle">> ELSE <<>>
      i3 == [i2 EXCEPT !.m_dupToken = INVALID_HANDLE_VALUE, !.m_token = INVALID_HANDLE_VALUE]
  IN  [i |-> IF revertOk THEN [i3 EXCEPT !.identity = "self"] ELSE i3,
       exc |-> IF revertOk THEN "none" ELSE "SystemException",
       calls |-> c1 \o c2 \o <<Native("RevertToSelf", revertOk)>>]

SetImp(i) ==
  /\ m_token' = i.m_token
  /\ m_dupToken' = i.m_dupToken
  /\ SetOS(i.os)
  /\ identity' = i.identity

\* impersonateAsLoggedUser / impersonateAsCurrentProcessUser: the token is a
\* handle the operating system has just handed out.
I_impersonateAsUser ==
  \E nameOk \in BOOLEAN, dupOk \in BOOLEAN, impOk \in BOOLEAN :
    LET i0 == [Imp EXCEPT !.os = NewHandle(OS)]
        c == impersonateAsUser(i0, hNext, nameOk, dupOk, impOk)
    IN  /\ hNext + 1 <= MaxHandles
        /\ SetImp(c.i)
        /\ last' = Call("impersonateAsUser", hNext, "-", "-", c.exc, <<>>, NoDraw)
        /\ calls' = c.calls
        /\ UNCHANGED <<renderVars, pipeVars, dcVars>>

I_revertToSelf ==
  \E revertOk \in BOOLEAN :
    LET c == revertToSelf(Imp, revertOk)
    IN  /\ SetImp(c.i)
        /\ last' = Call("revertToSelf", "-", "-", "-", c.exc, <<>>, NoDraw)
        /\ calls' = c.calls
        /\ UNCHANGED <<renderVars, pipeVars, dcVars>>

NextImp ==
  \/ I_impersonateAsUser
  \/ I_revertToSelf

SpecImp == Init /\ [][NextImp]_vars

\* ------------------------------------------------------------- PipeServer
Pipe == [m_serverPipe |-> m_serverPipe, m_initialized |-> m_initialized,
         peer |-> peer, streams |-> streams, os |-> OS]

\* PipeServer::initialize().  isVista: Environment::isVistaOrLater();
\* libOk: Kernel32.dll is loaded and GetNamedPipeClientProcessId is found.
initialize(p, isVista, libOk) ==
  IF ~isVista THEN p
  ELSE IF ~libOk THEN p
  ELSE [p EXCEPT !.m_initialized = TRUE]

\* PipeServer::createServerPipe().  createOk: CreateNamedPipe succeeds.
createServerPipe(p, createOk) ==
  IF createOk
  THEN [p |-> [p EXCEPT !.m_serverPipe = p.os.hNext, !.os = NewHandle(p.os), !.peer = "none"],
        exc |-> "none"]
  ELSE [p |-> [p EXCEPT !.m_serverPipe = INVALID_HANDLE_VALUE], exc |-> "Exception"]

\* Results of the steps of the peer check, in order: GetNamedPipeClientProcessId,
\* OpenProcess, GetProcessImageFileNameW for the client and for the server.
CheckOutcomes == [pid : BOOLEAN, open : BOOLEAN, clientName : BOOLEAN, serverName : BOOLEAN]

\* A step that is not reached has no result: written as TRUE.
CheckReached(k) ==
  /\ (~k.pid => k.open)
  /\ (~(k.pid /\ k.open) => k.clientName)
  /\ (~(k.pid /\ k.open /\ k.clientName) => k.serverName)

\* Mutant of checkOtherSideBinaryName: the comparison's result is dropped.
checkOtherSideBinaryName_mut(p, k) ==
  IF ~p.m_initialized THEN [ret |-> TRUE, calls |-> <<>>]
  ELSE [ret |-> TRUE, calls |-> <<"GetNamedPipeClientProcessId", "OpenProcess",
                                   "GetProcessImageFileNameW", "GetProcessImageFileNameW",
                                   IF p.peer = "same" THEN "equal" ELSE "equal=FAILED">>]

\* PipeServer::checkOtherSideBinaryName(hPipe): what it returns and the
\* steps it made; the last step compares the two image file names.
checkOtherSideBinaryName(p, k) ==
  IF ~p.m_initialized THEN [ret |-> TRUE, calls |-> <<>>]
  ELSE IF ~k.pid THEN [ret |-> TRUE, calls |-> <<"GetNamedPipeClientProcessId=FAILED">>]
  ELSE IF ~k.open
  THEN [ret |-> TRUE, calls |-> <<"GetNamedPipeClientProcessId", "OpenProcess=FAILED">>]
  ELSE IF ~k.clientName
  THEN [ret |-> TRUE, calls |-> <<"GetNamedPipeClientProcessId", "OpenProcess",
                                   "GetProcessImageFileNameW=FAILED">>]
  ELSE IF ~k.serverName
  THEN [ret |-> TRUE, calls |-> <<"GetNamedPipeClientProcessId", "OpenProcess",
                                   "GetProcessImageFileNameW", "GetProcessImageFileNameW=FAILED">>]
  ELSE [ret |-> p.peer = "same",
        calls |-> <<"GetNamedPipeClientProcessId", "OpenProcess",
                    "GetProcessImageFileNameW", "GetProcessImageFileNameW",
                    Native("equal", p.peer = "same")>>]

\* How ConnectNamedPipe and the wait that follows it end.
ConnectOutcomes == {"nonzero", "ERROR_PIPE_CONNECTED", "ERROR_IO_PENDING",
                    "ERROR_IO_PENDING,GetOverlappedResult=FAILED", "other"}
Connected(conn) == conn \in {"ERROR_PIPE_CONNECTED", "ERROR_IO_PENDING"}

\* Mutant of accept: the server keeps the handle it gave to the NamedPipe.
accept_mut(p, createOk, conn, client, k, allocOk) ==
  LET c == IF p.m_serverPipe = INVALID_HANDLE_VALUE
           THEN createServerPipe(p, createOk)
           ELSE [p |-> p, exc |-> "none"]
      p1 == [c.p EXCEPT !.peer = IF c.p.peer = "none" THEN client ELSE c.p.peer]
      chk == checkOtherSideBinaryName(p1, k)
  IN  IF c.exc # "none" THEN [p |-> c.p, stream |-> "none", exc |-> c.exc, calls |-> <<>>]
      ELSE IF ~Connected(conn)
      THEN [p |-> c.p, stream |-> "none", exc |-> "Exception", calls |-> <<>>]
      ELSE IF ~chk.ret
      THEN [p |-> p1, stream |-> "none", exc |-> "Exception", calls |-> chk.calls]
      ELSE IF ~allocOk
      THEN [p |-> p1, stream |-> "none", exc |-> "other", calls |-> chk.calls]
      ELSE [p |-> [p1 EXCEPT !.streams = p1.streams \cup {p1.m_serverPipe}],
            stream |-> p1.peer, exc |-> "none", calls |-> chk.calls]

\* NamedPipe *PipeServer::accept().  client: the process that connects when
\* the instance has no client yet; allocOk: new NamedPipe succeeds.
\* stream: the peer of the returned NamedPipe ("none" when nothing is returned).
accept(p, createOk, conn, client, k, allocOk) ==
  LET c == IF p.m_serverPipe = INVALID_HANDLE_VALUE
           THEN createServerPipe(p, createOk)
           ELSE [p |-> p, exc |-> "none"]
      p1 == [c.p EXCEPT !.peer = IF c.p.peer = "none" THEN client ELSE c.p.peer]
      chk == checkOtherSideBinaryName(p1, k)
  IN  IF c.exc # "none" THEN [p |-> c.p, stream |-> "none", exc |-> c.exc, calls |-> <<>>]
      ELSE IF ~Connected(conn)
      THEN [p |-> c.p, stream |-> "none", exc |-> "Exception", calls |-> <<>>]
      ELSE IF ~chk.ret
      THEN [p |-> p1, stream |-> "none", exc |-> "Exception", calls |-> chk.calls]
      ELSE IF ~allocOk
      THEN [p |-> p1, stream |-> "none", exc |-> "other", calls |-> chk.calls]
      ELSE [p |-> [p1 EXCEPT !.m_serverPipe = INVALID_HANDLE_VALUE, !.peer = "none",
                             !.streams = p1.streams \cup {p1.m_serverPipe}],
            stream |-> p1.peer, exc |-> "none", calls |-> chk.calls]

SetPipe(p) ==
  /\ m_serverPipe' = p.m_serverPipe
  /\ m_initialized' = p.m_initialized
  /\ peer' = p.peer
  /\ streams' = p.streams
  /\ SetOS(p.os)

\* PipeServer::PipeServer(name, bufferSize, secAttr, milliseconds); a
\* constructor that throws leaves no object, the static flag stays.
P_new ==
  \E isVista \in BOOLEAN, libOk \in BOOLEAN, createOk \in BOOLEAN :
    LET p0 == IF m_initialized THEN Pipe ELSE initialize(Pipe, isVista, libOk)
        c == createServerPipe(p0, createOk)
    IN  /\ ~server
        /\ hNext <= MaxHandles
        /\ SetPipe(c.p)
        /\ server' = (c.exc = "none")
        /\ last' = Call("PipeServer", "-", "-", "-", c.exc, <<>>, NoDraw)
        /\ calls' = <<>>
        /\ UNCHANGED <<renderVars, dcVars, m_token, m_dupToken, identity>>

P_accept ==
  \E createOk \in BOOLEAN, conn \in ConnectOutcomes, client \in {"same", "other"},
     k \in {x \in CheckOutcomes : CheckReached(x)}, allocOk \in BOOLEAN :
    LET c == accept(Pipe, createOk, conn, client, k, allocOk)
    IN  /\ server
        /\ hNext <= MaxHandles
        /\ SetPipe(c.p)
        /\ last' = Call("accept", "-", "-", c.stream, c.exc, <<>>, NoDraw)
        /\ calls' = c.calls
        /\ UNCHANGED <<renderVars, dcVars, server, m_token, m_dupToken, identity>>

\* PipeServer::~PipeServer(): close() only signals the event.
P_delete ==
  /\ server
  /\ server' = FALSE
  /\ m_serverPipe' = INVALID_HANDLE_VALUE
  /\ peer' = "none"
  /\ last' = Call("~PipeServer", "-", "-", "-", "none", <<>>, NoDraw)
  /\ calls' = <<>>
  /\ UNCHANGED <<renderVars, dcVars, m_initialized, streams, m_token, m_dupToken, identity,
                 hNext, hOpen, hBadClose>>

NextPipe ==
  \/ P_new
  \/ P_accept
  \/ P_delete

SpecPipe == Init /\ [][NextPipe]_vars

\* --------------------------------------------------------------- DataCopy
\* values of a UINT8 used in the runs
Bytes == {0, 255}

\* the buffers passed to write: len bytes each, len up to MaxLen
Buffers == UNION {[1..n -> Bytes] : n \in 0..MaxLen}

\* std::copy(first, last, d_first) inside one vector v: the elements at
\* positions i..Len(v) are stored, one after the other in ascending order,
\* at the positions starting len places before them.
RECURSIVE copy(_, _, _)
copy(v, len, i) ==
  IF i > Len(v) THEN v
  ELSE copy([v EXCEPT ![i - len] = v[i]], len, i + 1)

\* Mutant of write: only the first byte of the buffer is inserted.
write_mut(b, buffer, len) ==
  [buf |-> b \o SubSeq(buffer, 1, IF len > 1 THEN 1 ELSE len), ret |-> len]

\* size_t DataCopy::write(buffer, len): buffer holds len bytes.
write(b, buffer, len) ==
  [buf |-> b \o SubSeq(buffer, 1, len), ret |-> len]

\* Mutant of read: the vector is cut to its new size without moving the
\* remaining bytes to the front.
read_mut(b, len) ==
  LET have == Len(b)
      n == IF have < len THEN have ELSE len
  IN  [buf |-> SubSeq(b, 1, have - n), out |-> SubSeq(b, 1, n), ret |-> n]

\* size_t DataCopy::read(buffer, len): out is what is stored in buffer.
read(b, len) ==
  LET have == Len(b)
      n == IF have < len THEN have ELSE len
  IN  [buf |-> SubSeq(copy(b, n, n + 1), 1, have - n), out |-> SubSeq(b, 1, n), ret |-> n]

\* size_t DataCopy::available()
available(b) == Len(b)

DC_write ==
  \E buffer \in Buffers :
    LET c == write(buf, buffer, Len(buffer))
    IN  /\ Len(written) + Len(buffer) <= MaxWritten
        /\ buf' = c.buf
        /\ written' = written \o buffer
        /\ readOut' = readOut
        /\ last' = Call("write", buffer, "-", c.ret, "none", <<>>, NoDraw)
        /\ calls' = <<>>
        /\ UNCHANGED <<renderVars, pipeVars, m_token, m_dupToken, identity,
                       hNext, hOpen, hBadClose>>

DC_read ==
  \E len \in 0..MaxLen :
    LET c == read(buf, len)
    IN  /\ buf' = c.buf
        /\ written' = written
        /\ readOut' = readOut \o c.out
        /\ last' = Call("read", len, "-", c.ret, "none", <<>>, NoDraw)
        /\ calls' = <<>>
        /\ UNCHANGED <<renderVars, pipeVars, m_token, m_dupToken, identity,
                       hNext, hOpen, hBadClose>>

NextDC ==
  \/ DC_write
  \/ DC_read

SpecDC == Init /\ [][NextDC]_vars

\* ================================================================ claims
\* Every backend instance created and not yet deleted.
Alive == {i \in 1..(nextId - 1) : i \notin freed}

\* The backend instances the coordinator points at.
Held == {m_dibSection, m_direct2DSection} \ {NULL}

CaptureOps == {"blitToDibSection", "blitTransparentToDibSection"}
PresentOps == {"blitFromDibSection", "stretchFromDibSection"}

coordVars == <<m_mode, m_dibSection, m_direct2DSection, m_pixelFormat, m_dimension,
               m_window, d2d, bits, nextId, freed>>

\* C1: once a RenderManager has been constructed, whatever setRenderMode
\* calls follow and however the probe and the backend constructors end, the
\* coordinator holds a live backend.
C1_AlwaysABackend == m_renderManager => Held # {}

\* C2: a setRenderMode(Direct2D) call whose probe reports Direct2D
\* unavailable returns false and changes neither the backend instance, nor
\* the mode tag, nor the buffer pointer, whatever state it is called in.
C2_ProbeFailureKeepsAll ==
  [][(last'.op = "setRenderMode" /\ last'.arg = RENDER_MODE_DIRECT2D /\ last'.probe = "false")
       => /\ last'.ret = "false"
          /\ last'.exc = "none"
          /\ UNCHANGED coordVars
          /\ getBuffer(RM)' = getBuffer(RM)]_vars

\* C2 happens: a refused switch in a state with a live raster backend.
C2_Witness ==
  /\ last.op = "setRenderMode" /\ last.arg = RENDER_MODE_DIRECT2D
  /\ last.probe = "false" /\ last.ret = "false"
  /\ m_renderManager /\ m_dibSection # NULL /\ freed # {}

\* C3: setRenderMode(Direct2D) in raster mode, with the probe succeeding and
\* no render target creatable, reports failure, keeps the mode raster and
\* keeps the raster backend instance that was alive before the call.
C3_FailedSwitchKeepsRaster ==
  [][(/\ last'.op = "setRenderMode" /\ last'.arg = RENDER_MODE_DIRECT2D
      /\ last'.probe = "true" /\ m_mode = RENDER_MODE_GDI /\ m_dibSection # NULL
      /\ last'.news # <<>> /\ last'.news[1] = <<"Direct2DSection", "target">>)
       => /\ last'.ret = "false"
          /\ m_mode' = RENDER_MODE_GDI
          /\ m_dibSection' = m_dibSection
          /\ m_dibSection \notin freed']_vars

\* C4: setRenderMode with the current mode returns true and changes nothing.
C4_SameModeSucceeds ==
  [][(last'.op = "setRenderMode" /\ m_renderManager /\ last'.arg = m_mode)
       => /\ last'.ret = "true"
          /\ UNCHANGED coordVars
          /\ getBuffer(RM)' = getBuffer(RM)]_vars

\* C5: when setRenderMode returns true, the mode tag is the requested mode
\* and the live backend is of that variant.
C5_TrueMeansModeSet ==
  (last.op = "setRenderMode" /\ last.ret = "true")
    => /\ m_mode = last.arg
       /\ (last.arg = RENDER_MODE_DIRECT2D => m_direct2DSection # NULL /\ m_dibSection = NULL)
       /\ (last.arg = RENDER_MODE_GDI => m_dibSection # NULL /\ m_direct2DSection = NULL)

\* C6: in every state reached through the facade, m_fb's buffer pointer is
\* the active backend's buffer when a backend exists and null otherwise, and
\* it is never the buffer of a deleted backend.
C6_BufferFollowsBackend ==
  /\ (Held # {} => m_fb.buffer = getBuffer(RM))
  /\ (Held = {} => m_fb.buffer = NULL)
  /\ m_fb.buffer \notin freed

\* C7: at most one backend instance is alive per coordinator: the two
\* backend pointers are never both set, and no instance is alive besides
\* the one the coordinator points at.
C7_AtMostOneBackend ==
  /\ ~(m_dibSection # NULL /\ m_direct2DSection # NULL)
  /\ Cardinality(Alive) <= 1
  /\ Alive = Held

\* C7 happens: a mode switch has replaced a backend (the fallback inside
\* createRenderer included) and one backend is alive.
C7_Witness ==
  /\ last.op = "setRenderMode"
  /\ Len(last.news) = 2 /\ last.news[2] = <<"DibSection", "ok">>
  /\ freed # {} /\ Cardinality(Alive) = 1

\* C8: every refused mutator of the facade throws, in every state, and
\* leaves dimension, format, buffer pointer, coordinator and backend as
\* they were.
C8_MutatorsThrow ==
  [][last'.op = "mutator"
       => /\ last'.exc = "Exception"
          /\ UNCHANGED <<coordVars, m_renderManager, m_fb>>]_vars

\* C8 happens: a mutator was called on a facade whose coordinator runs the
\* Direct2D backend.
C8_Witness ==
  /\ last.op = "mutator" /\ last.exc = "Exception"
  /\ m_renderManager /\ m_mode = RENDER_MODE_DIRECT2D /\ m_fb.buffer = m_direct2DSection
  /\ m_fb.buffer # NULL

\* C9: while no backend is active, capture, captureTransparent, present,
\* presentStretched and resize called on the facade fail with an exception.
C9_NoBackendMeansFailure ==
  (last.op \in CaptureOps \cup PresentOps \cup {"resize"} /\ Held = {})
    => last.exc = "Exception"

NewsOf(class) == {i \in 1..Len(last.news) : last.news[i][1] = class}

\* C11: a RenderManager constructed with mode Direct2D while the probe fails
\* attempts no Direct2DSection construction and, when the constructor
\* returns, is in GDI mode with a DibSection and a non-null buffer.
C11_CtorDowngradesOnProbeFailure ==
  (last.op = "RenderManager" /\ last.arg = RENDER_MODE_DIRECT2D /\ last.probe = "false")
    => /\ NewsOf("Direct2DSection") = {}
       /\ last.news = <<DibNews(last.exc)>>
       /\ (last.exc = "none"
             => /\ m_renderManager
                /\ m_mode = RENDER_MODE_GDI
                /\ m_dibSection # NULL /\ m_dibSection \in Alive
                /\ m_direct2DSection = NULL
                /\ getBuffer(RM) # NULL)

\* C11 happens: such a construction has returned, for a regular dimension.
C11_Witness ==
  /\ last.op = "RenderManager" /\ last.arg = RENDER_MODE_DIRECT2D /\ last.probe = "false"
  /\ last.exc = "none" /\ m_renderManager /\ m_dibSection # NULL
  /\ m_dimension = [width |-> 2, height |-> 2]

\* The calls that run createRenderer, when they reach it.
RanCreateRenderer == last.op \in {"RenderManager", "setRenderMode"} /\ last.news # <<>>

\* C12: when createRenderer's Direct2DSection construction fails, with a
\* SystemException or with any other exception, a DibSection is constructed
\* next and the mode tag is GDI; and whenever createRenderer returns
\* normally exactly one backend exists, of the variant the mode tag names.
C12_FallbackToRaster ==
  /\ (RanCreateRenderer /\ last.news[1][1] = "Direct2DSection" /\ last.news[1][2] # "ok")
       => /\ Len(last.news) = 2 /\ last.news[2][1] = "DibSection"
          /\ (last.news[2][2] = "ok" <=> last.exc = "none")
          /\ m_mode = RENDER_MODE_GDI
          /\ m_direct2DSection = NULL
  /\ (RanCreateRenderer /\ last.exc = "none")
       => /\ Cardinality(Held) = 1 /\ Alive = Held
          /\ (m_mode = RENDER_MODE_DIRECT2D => m_direct2DSection # NULL /\ d2d # NoD2D)
          /\ (m_mode = RENDER_MODE_GDI => m_dibSection # NULL /\ d2d = NoD2D)

\* C12 happens: operator new failed for the Direct2DSection (an exception
\* that is not a SystemException) and the fallback DibSection was built.
C12_Witness ==
  /\ RanCreateRenderer /\ last.exc = "none"
  /\ last.news = <<<<"Direct2DSection", "alloc">>, <<"DibSection", "ok">>>>
  /\ m_mode = RENDER_MODE_GDI /\ m_dibSection # NULL

\* The DibSection constructions of the last call that threw.
FailedDibNews == {i \in NewsOf("DibSection") : last.news[i][2] # "ok"}

\* C13: when the DibSection construction fails inside createRenderer, asked
\* for directly or as the fallback after a Direct2DSection failure, the call
\* ends in an exception, no constructor is run after the failed one, and
\* neither backend pointer is set and no backend instance is left alive.
C13_RasterFailurePropagates ==
  (RanCreateRenderer /\ FailedDibNews # {})
    => /\ last.exc \in {"SystemException", "other"}
       /\ FailedDibNews = {Len(last.news)}
       /\ m_dibSection = NULL /\ m_direct2DSection = NULL
       /\ d2d = NoD2D
       /\ Alive = {}

\* C13 happens: the fallback DibSection of a mode switch threw, after the
\* previous backend had been deleted.
C13_Witness ==
  /\ last.op = "setRenderMode" /\ last.exc = "SystemException"
  /\ Len(last.news) = 2 /\ last.news[1][1] = "Direct2DSection"
  /\ last.news[2] = <<"DibSection", "SystemException">>
  /\ m_renderManager /\ Held = {} /\ freed # {}

\* The native calls that change a render target's size, and those that failed.
SizingCalls == {"Resize", "Resize=FAILED", "BindDC", "BindDC=FAILED"}
FailedSizingCalls == {"Resize=FAILED", "BindDC=FAILED"}
Sizing(cs) == {i \in 1..Len(cs) : cs[i] \in SizingCalls}
FailedSizing(cs) == {i \in 1..Len(cs) : cs[i] \in FailedSizingCalls}

\* Two resize calls in succession on a live Direct2DSection, same size.
RepeatedResize ==
  /\ last.op = "resize" /\ last'.op = "resize"
  /\ last.exc = "none" /\ last'.exc = "none"
  /\ last'.arg = last.arg
  /\ m_mode = RENDER_MODE_DIRECT2D /\ m_direct2DSection # NULL

Has(cs, names) == \E i \in 1..Len(cs) : cs[i] \in names

\* A resize call reaches a live Direct2DSection.
ResizeStep ==
  /\ last'.op = "resize" /\ last'.exc = "none"
  /\ m_renderManager /\ m_mode = RENDER_MODE_DIRECT2D /\ m_direct2DSection # NULL

\* What resize leaves alone: factory, bitmap, mirror buffer and its pointer,
\* the recorded width and height, the kind of render target.
ResizeKeeps ==
  /\ d2d' = [d2d EXCEPT !.rtSize = d2d'.rtSize]
  /\ getBuffer(RM)' = getBuffer(RM)
  /\ UNCHANGED <<m_mode, m_dibSection, m_direct2DSection, bits, nextId, freed>>

\* C15 (as stated): a resize to a size other than the render target's pixel
\* size calls Resize exactly when the target is window-bound and BindDC
\* exactly when it is device-context-bound, keeping factory, bitmap, mirror
\* buffer and recorded width/height; with the size unchanged it makes no
\* native call.
C15_ResizeByTargetKind ==
  [][ResizeStep
       => /\ ResizeKeeps
          /\ IF resizeNeeded(d2d, ResizeTo(last'.arg))
             THEN /\ (Has(calls', {"Resize", "Resize=FAILED"}) <=> d2d.m_pHwndRenderTarget)
                  /\ (Has(calls', {"BindDC", "BindDC=FAILED"}) <=> d2d.m_pDCRenderTarget)
             ELSE calls' = <<>>]_vars

\* C15 (amended): as above, but the BindDC of a device-context-bound target
\* is made exactly when GetDC hands out a device context; when it does not,
\* no sizing call is made and the render target keeps its size.
C15_ResizeByTargetKindWithDC ==
  [][ResizeStep
       => /\ ResizeKeeps
          /\ IF resizeNeeded(d2d, ResizeTo(last'.arg))
             THEN /\ (Has(calls', {"Resize", "Resize=FAILED"}) <=> d2d.m_pHwndRenderTarget)
                  /\ (Has(calls', {"BindDC", "BindDC=FAILED"})
                        <=> d2d.m_pDCRenderTarget /\ ~Has(calls', {"GetDC=NULL"}))
                  /\ (Has(calls', {"GetDC=NULL"})
                        => d2d.m_pDCRenderTarget /\ Sizing(calls') = {} /\ d2d' = d2d)
                  /\ Cardinality(Sizing(calls')) <= 1
             ELSE calls' = <<>>]_vars

\* C15 happens: a device-context-bound target was rebound to a new size.
C15_Witness ==
  /\ last.op = "resize" /\ calls = <<"GetDC", "BindDC", "ReleaseDC">>
  /\ d2d.m_pDCRenderTarget /\ d2d.m_pBitmap /\ d2d.m_bitmapBits
  /\ d2d.rtSize = ResizeTo(last.arg) /\ d2d.rtSize # d2d.bitmapSize

\* The native calls of a present or resize call that did not succeed.
FailedNatives == {"CopyFromMemory=FAILED", "EndDraw=FAILED", "Resize=FAILED",
                  "BindDC=FAILED", "GetDC=NULL"}

\* C16: when a native call fails inside blitFromDibSection,
\* stretchFromDibSection or resize on a live Direct2DSection (bitmap upload,
\* EndDraw, Resize, BindDC, GetDC), the facade's caller sees no exception,
\* a drawing that was begun has been ended, and the backend's resources,
\* the mode, the backend pointers and the buffer pointers are unchanged.
C16_PerCallFailureAbsorbed ==
  [][(/\ last'.op \in PresentOps \cup {"resize"}
      /\ m_renderManager /\ m_mode = RENDER_MODE_DIRECT2D /\ m_direct2DSection # NULL
      /\ Has(calls', FailedNatives))
       => /\ last'.exc = "none"
          /\ (Has(calls', {"BeginDraw"}) => calls'[Len(calls')] \in {"EndDraw", "EndDraw=FAILED"})
          /\ UNCHANGED <<coordVars, m_renderManager, m_fb>>
          /\ getBuffer(RM)' = getBuffer(RM)]_vars

\* C16 happens: EndDraw failed in a present call on a facade whose buffer
\* is the Direct2DSection's mirror buffer.
C16_Witness ==
  /\ last.op = "blitFromDibSection" /\ last.exc = "none"
  /\ Has(calls, {"EndDraw=FAILED"})
  /\ m_renderManager /\ m_mode = RENDER_MODE_DIRECT2D
  /\ m_fb.buffer = m_direct2DSection /\ m_fb.buffer # NULL

\* C17: blitToDibSection, blitTransparentToDibSection, blitFromDibSection,
\* stretchFromDibSection and resize change neither the pointer the facade
\* reports nor the one the coordinator hands out; the facade's pointer
\* changes only in setProperties or in a setRenderMode that returns true.
C17_BufferPointerStable ==
  [][/\ (last'.op \in CaptureOps \cup PresentOps \cup {"resize"}
          => m_fb'.buffer = m_fb.buffer /\ getBuffer(RM)' = getBuffer(RM))
     /\ (m_fb'.buffer # m_fb.buffer
          => \/ last'.op = "setProperties"
             \/ last'.op = "setRenderMode" /\ last'.ret = "true")]_vars

\* C17 happens: a capture ran in raster mode on a facade whose pointer is
\* the buffer of a second or later backend, with pixels in the buffer.
C17_Witness ==
  /\ last.op \in CaptureOps /\ last.exc = "none"
  /\ m_renderManager /\ m_fb.buffer = m_dibSection /\ m_fb.buffer > 1
  /\ bits # 0

\* C18: every setProperties(dim, pf, hwnd) that returns has deleted the
\* previous coordinator with its backend before constructing the new one,
\* leaves one coordinator holding one new backend and nothing else alive,
\* and leaves m_fb's buffer pointer at the new coordinator's buffer.
C18_ReinitializeReplaces ==
  [][(last'.op = "setProperties" /\ last'.exc = "none")
       => /\ m_renderManager'
          /\ last'.news = (IF m_renderManager THEN <<<<"~RenderManager", "ok">>>> ELSE <<>>)
                             \o <<<<"DibSection", "ok">>>>
          /\ Held \subseteq freed'
          /\ Cardinality(Held') = 1 /\ Alive' = Held'
          /\ Held' \cap (Held \cup freed) = {}
          /\ m_fb'.buffer = getBuffer(RM)' /\ m_fb'.buffer # NULL
          /\ m_fb'.buffer \in Held']_vars

\* C18 happens: setProperties returned for the third time, the two earlier
\* backends deleted.
C18_Witness ==
  /\ last.op = "setProperties" /\ last.exc = "none"
  /\ Len(last.news) = 2
  /\ freed = {1, 2} /\ m_dibSection = 3 /\ m_fb.buffer = 3

\* C19: when setProperties(dim, pf, hwnd) fails because the coordinator
\* cannot be constructed, the facade holds no coordinator, no backend is
\* alive, m_fb's buffer pointer is null and m_fb's dimension and pixel
\* format are what they were before the call.
C19_FailedInitLeavesNothing ==
  [][(last'.op = "setProperties" /\ last'.exc # "none")
       => /\ ~m_renderManager'
          /\ Held' = {} /\ Alive' = {}
          /\ m_fb'.buffer = NULL
          /\ m_fb'.dim = m_fb.dim
          /\ m_fb'.pf = m_fb.pf]_vars

\* C20: stretchFromDibSection(srcRect, dstRect) called on the facade in
\* Direct2D mode draws with the roles the caller gave: the rectangle read
\* from the bitmap is the caller's srcRect and the rectangle drawn on the
\* render target is the caller's dstRect (cut to the render target).
C20_StretchKeepsRoles ==
  (last.op = "stretchFromDibSection" /\ Has(calls, {"DrawBitmap"}))
    => /\ last.draw.src = last.arg.srcRect
       /\ last.draw.dst = ClampRB(last.arg.dstRect, d2d.rtSize)

\* C21: in every state of a coordinator, destroyRenderer leaves both
\* backend pointers null and the Direct2D resources released, deletes the
\* backend the coordinator held and nothing that was deleted before, and
\* run a second time changes nothing; on a coordinator without a backend
\* it deletes nothing.
C21_DestroyIdempotent ==
  LET r1 == destroyRenderer(RM)
      r2 == destroyRenderer(r1)
  IN  /\ r1.m_dibSection = NULL /\ r1.m_direct2DSection = NULL /\ r1.d2d = NoD2D
      /\ Held \cap freed = {}
      /\ r1.freed = freed \cup Held
      /\ Len(destroyNews(RM)) = Cardinality(Held)
      /\ r2 = r1 /\ destroyNews(r1) = <<>>
      /\ (last.op = "~RenderManager" => Held = {} /\ Alive = {})

\* C21 happens: the destructor ran destroyRenderer on a coordinator that a
\* failed mode switch had left without a backend.
C21_Witness ==
  /\ last.op = "~RenderManager" /\ last.news = <<>>
  /\ freed # {} /\ Held = {} /\ ~m_renderManager

\* C22: revertToSelf leaves both stored token handles invalid, whether it
\* returns or throws; it throws exactly when RevertToSelf fails; called
\* again, or with no identity assumed, it closes nothing; and over every
\* sequence of impersonateAsUser and revertToSelf calls no handle is given
\* to CloseHandle twice.
C22_RevertIdempotent ==
  [][/\ hBadClose' = {}
     /\ (last'.op = "revertToSelf"
          => /\ m_token' = INVALID_HANDLE_VALUE /\ m_dupToken' = INVALID_HANDLE_VALUE
             /\ (last'.exc # "none" <=> Has(calls', {"RevertToSelf=FAILED"}))
             /\ (last'.exc = "none" => identity' = "self")
             /\ revertToSelf(Imp, TRUE)' = [i |-> [Imp EXCEPT !.identity = "self"]', exc |-> "none",
                                             calls |-> <<"RevertToSelf">>]
             /\ ((m_token = INVALID_HANDLE_VALUE /\ m_dupToken = INVALID_HANDLE_VALUE)
                   => hOpen' = hOpen /\ ~Has(calls', {"CloseHandle"})))]_vars

\* C22 happens: a second revertToSelf in a row, after an identity had been
\* assumed and given up.
C22_Witness ==
  /\ last.op = "revertToSelf" /\ last.exc = "none" /\ calls = <<"RevertToSelf">>
  /\ hNext > 2 /\ m_token = INVALID_HANDLE_VALUE /\ identity = "self"

\* The steps of the peer check that end it without a comparison.
CheckGivenUp == {"GetNamedPipeClientProcessId=FAILED", "OpenProcess=FAILED",
                 "GetProcessImageFileNameW=FAILED"}

\* C23: accept returns a stream to a client whose executable differs from
\* the server's only when the check is unavailable (GetNamedPipeClientProcessId
\* was not found) or one of its steps failed; when the check is available
\* and its comparison finds a difference, accept throws and returns nothing.
C23_MismatchRejected ==
  [][last'.op = "accept"
       => /\ (last'.ret = "other"
                => last'.exc = "none" /\ (~m_initialized \/ Has(calls', CheckGivenUp)))
          /\ ((m_initialized /\ Has(calls', {"equal=FAILED"}))
                => /\ last'.exc = "Exception" /\ last'.ret = "none"
                   /\ m_serverPipe' # INVALID_HANDLE_VALUE)
          /\ (last'.exc # "none" => last'.ret = "none")]_vars

\* C23 happens: with the check available, a client running another
\* executable was refused.
C23_Witness ==
  /\ last.op = "accept" /\ last.exc = "Exception" /\ last.ret = "none"
  /\ m_initialized /\ peer = "other" /\ Has(calls, {"equal=FAILED"})

\* C24: a blitFromDibSection on the Direct2D backend makes its native calls
\* in the order BeginDraw, CopyFromMemory, Clear, DrawBitmap, EndDraw; when
\* the upload fails only EndDraw follows, so the render target is never
\* cleared or drawn to unless the upload has succeeded before.
C24_PresentOrder ==
  (last.op = "blitFromDibSection" /\ calls # <<>>)
    => /\ calls[1] = "BeginDraw"
       /\ calls \in {<<"BeginDraw", "CopyFromMemory", "Clear", "DrawBitmap", "EndDraw">>,
                      <<"BeginDraw", "CopyFromMemory", "Clear", "DrawBitmap", "EndDraw=FAILED">>,
                      <<"BeginDraw", "CopyFromMemory=FAILED", "EndDraw">>}
       /\ \A i \in 1..Len(calls) :
            calls[i] \in {"Clear", "DrawBitmap"}
              => \E j \in 1..(i - 1) : calls[j] = "CopyFromMemory"
       /\ (last.draw # NoDraw <=> Has(calls, {"DrawBitmap"}))

\* C24 happens: a present went through all five steps with producer pixels
\* in the mirror buffer.
C24_Witness ==
  /\ last.op = "blitFromDibSection"
  /\ calls = <<"BeginDraw", "CopyFromMemory", "Clear", "DrawBitmap", "EndDraw">>
  /\ m_mode = RENDER_MODE_DIRECT2D /\ bits # 0

\* Every edge of a rectangle lies within an extent of the given size.
Inside(rect, size) ==
  /\ 0 <= rect.left /\ rect.left <= size.width
  /\ 0 <= rect.right /\ rect.right <= size.width
  /\ 0 <= rect.top /\ rect.top <= size.height
  /\ 0 <= rect.bottom /\ rect.bottom <= size.height

\* C25: whatever rectangle the caller passes, the rectangles handed to
\* DrawBitmap are inside the addressable extent: in blitFromDibSection the
\* destination is inside the render target, and in stretchFromDibSection
\* the source is inside the bitmap and the destination inside the render
\* target, on all four edges.
C25_DrawInsideExtent ==
  (last.op \in PresentOps /\ Has(calls, {"DrawBitmap"}))
    => /\ Inside(last.draw.dst, d2d.rtSize)
       /\ last.op = "stretchFromDibSection" => Inside(last.draw.src, d2d.bitmapSize)

\* The last call ran initDirect2D: a RenderManager constructor or a
\* setRenderMode whose Direct2DSection got past operator new.
Built ==
  /\ last.op \in {"RenderManager", "setRenderMode"}
  /\ last.news # <<>> /\ last.news[1][1] = "Direct2DSection" /\ last.news[1][2] # "alloc"

\* The native calls of that construction: those after the probe's two.
InitCalls == SubSeq(calls, 3, Len(calls))

TargetMade == {"CreateHwndRenderTarget", "CreateDCRenderTarget"}
TargetTried == TargetMade \cup {"CreateHwndRenderTarget=FAILED", "CreateDCRenderTarget=FAILED"}
BufferTried == {"CreateBitmap", "CreateBitmap=FAILED", "malloc", "malloc=FAILED"}

\* In a call sequence every call of the set later comes after a call of the
\* set earlier.
After(cs, later, earlier) ==
  \A i \in 1..Len(cs) : cs[i] \in later => \E j \in 1..(i - 1) : cs[j] \in earlier

\* The order of the construction's steps: the factory, then the window-bound
\* target, the device-context-bound target only after that one failed, the
\* bitmap and the mirror buffer only once a target exists; with both targets
\* failing the constructor throws.
BuildOrder(cs) ==
  /\ After(cs, TargetTried, {"D2D1CreateFactory"})
  /\ After(cs, {"CreateDCRenderTarget", "CreateDCRenderTarget=FAILED"},
           {"CreateHwndRenderTarget=FAILED"})
  /\ After(cs, BufferTried, TargetMade)
  /\ ((Has(cs, {"CreateHwndRenderTarget=FAILED"}) /\ Has(cs, {"CreateDCRenderTarget=FAILED"}))
        => last.news[1][2] = "target")

\* C26 (as stated): the construction keeps that order, and whenever one of
\* the two render targets is created the construction succeeds and the
\* coordinator ends in Direct2D mode with the new backend.
C26_BuildSucceedsWithTarget ==
  Built
    => /\ BuildOrder(InitCalls)
       /\ (Has(InitCalls, TargetMade)
             => /\ last.news[1][2] = "ok" /\ last.exc = "none"
                /\ m_mode = RENDER_MODE_DIRECT2D /\ m_direct2DSection # NULL)

\* C26 (amended): the construction keeps that order, and when one of the two
\* render targets is created it succeeds exactly when the bitmap and the
\* mirror buffer are created as well (the coordinator then ends in Direct2D
\* mode with the new backend); when CreateBitmap or malloc fails it throws
\* although a render target exists, and the coordinator ends in GDI mode.
C26_BuildSucceedsWithTargetAndBuffers ==
  Built
    => /\ BuildOrder(InitCalls)
       /\ (Has(InitCalls, TargetMade)
             => /\ (last.news[1][2] = "ok"
                      <=> Has(InitCalls, {"CreateBitmap"}) /\ Has(InitCalls, {"malloc"}))
                /\ (last.news[1][2] = "ok"
                      => /\ last.exc = "none"
                         /\ m_mode = RENDER_MODE_DIRECT2D /\ m_direct2DSection # NULL
                         /\ d2d.m_pRenderTarget # "NULL" /\ d2d.m_pBitmap /\ d2d.m_bitmapBits)
                /\ (last.news[1][2] # "ok"
                      => /\ last.news[1][2] \in {"bitmap", "malloc"}
                         /\ m_mode = RENDER_MODE_GDI /\ m_direct2DSection = NULL))

\* C26 happens: a mode switch whose window-bound target failed ended in
\* Direct2D mode on a device-context-bound target.
C26_Witness ==
  /\ last.op = "setRenderMode" /\ Built /\ last.news[1][2] = "ok"
  /\ Has(InitCalls, {"CreateHwndRenderTarget=FAILED"})
  /\ Has(InitCalls, {"CreateDCRenderTarget"})
  /\ m_mode = RENDER_MODE_DIRECT2D /\ d2d.m_pDCRenderTarget

\* The calls of a construction that acquire a resource the instance keeps,
\* the calls that release one, and the release that belongs to an acquisition.
IsAcquire(c) == c \in {"D2D1CreateFactory", "CreateHwndRenderTarget", "CreateDCRenderTarget",
                       "CreateBitmap", "malloc"}
IsRelease(c) == c \in {"free", "Bitmap.Release", "RenderTarget.Release", "Factory.Release"}
ReleaseOf(c) ==
  CASE c = "malloc" -> "free"
    [] c = "CreateBitmap" -> "Bitmap.Release"
    [] c \in {"CreateHwndRenderTarget", "CreateDCRenderTarget"} -> "RenderTarget.Release"
    [] c = "D2D1CreateFactory" -> "Factory.Release"

\* C27: when the construction of a Direct2DSection fails at any step, the
\* releases follow every other call of the construction, there is exactly
\* one release for each resource acquired and they come in reverse order of
\* acquisition (mirror buffer, bitmap, render target, factory); and once
\* the call is over the coordinator holds no Direct2DSection and none of
\* the failed instance's resources.
C27_FailedBuildReleasesAll ==
  (Built /\ last.news[1][2] # "ok")
    => LET cs == InitCalls
           acq == SelectSeq(cs, IsAcquire)
           rel == SelectSeq(cs, IsRelease)
       IN  /\ Len(rel) = Len(acq)
           /\ \A i \in 1..Len(rel) : rel[i] = ReleaseOf(acq[Len(acq) + 1 - i])
           /\ \A i, j \in 1..Len(cs) : (IsRelease(cs[i]) /\ ~IsRelease(cs[j])) => j < i
           /\ m_direct2DSection = NULL /\ d2d = NoD2D
           /\ getBuffer(RM) \in {NULL, m_dibSection}

\* C27 happens: the mirror buffer could not be allocated after factory,
\* render target and bitmap had been created, and the three were released.
C27_Witness ==
  /\ Built /\ last.news[1][2] = "malloc"
  /\ SelectSeq(InitCalls, IsRelease) = <<"Bitmap.Release", "RenderTarget.Release", "Factory.Release">>
  /\ m_direct2DSection = NULL /\ d2d = NoD2D

\* C28: a live Direct2DSection records a width and a height of at least 1,
\* and they are the size of its native bitmap, so that the row stride
\* m_width * 4 of the uploads is the bitmap's row and the mirror buffer's
\* m_width * m_height * 4 bytes are the bytes that were allocated.
C28_RecordedSizeIsBitmapSize ==
  (m_renderManager /\ m_direct2DSection # NULL)
    => /\ d2d.m_width >= 1 /\ d2d.m_height >= 1
       /\ d2d.bitmapSize.width >= 1 /\ d2d.bitmapSize.height >= 1
       /\ d2d.m_width = d2d.bitmapSize.width /\ d2d.m_height = d2d.bitmapSize.height

\* C29: a call of isD2DAvailable releases the factory it created before it
\* returns (and creates none when D2D1CreateFactory fails), and it changes
\* nothing of a coordinator: mode, backend pointers, backend resources,
\* pixels, the buffer pointer and the heap are as before, with or without
\* a live coordinator and however often it is called.
C29_ProbeStateless ==
  [][last'.op = "isD2DAvailable"
       => /\ calls' \in {<<"D2D1CreateFactory", "Factory.Release">>, <<"D2D1CreateFactory=FAILED">>}
          /\ (last'.ret = "true" <=> Has(calls', {"Factory.Release"}))
          /\ UNCHANGED <<coordVars, m_renderManager, m_fb>>
          /\ getBuffer(RM)' = getBuffer(RM)]_vars

\* C29 happens: the probe succeeded beside a live coordinator in Direct2D
\* mode, whose backend and buffer are in place.
C29_Witness ==
  /\ last.op = "isD2DAvailable" /\ last.ret = "true"
  /\ calls = <<"D2D1CreateFactory", "Factory.Release">>
  /\ m_renderManager /\ m_mode = RENDER_MODE_DIRECT2D /\ m_direct2DSection # NULL
  /\ d2d.m_pD2DFactory /\ getBuffer(RM) = m_direct2DSection

\* A backend is constructed in this step: a backend pointer is set to an
\* instance that did not exist before.
BackendBuilt ==
  \/ m_dibSection' # NULL /\ m_dibSection' >= nextId
  \/ m_direct2DSection' # NULL /\ m_direct2DSection' >= nextId

\* C30: whenever createRenderer constructs a backend, of either kind, the
\* window it constructs it against is neither null nor invalid: an absent
\* or invalid m_window has been replaced by the desktop window before.
C30_BackendOnValidWindow ==
  [][(last'.op \in {"RenderManager", "setRenderMode"} /\ BackendBuilt)
       => m_window' # "NULL" /\ IsWindow(m_window')]_vars

\* C31: in every state, those left by a createRenderer that threw included,
\* the mode tag is Direct2D only when the Direct2DSection pointer is set,
\* and a set DibSection pointer means the mode tag is GDI; so resize, which
\* uses the Direct2DSection pointer unchecked in Direct2D mode, never uses
\* a null pointer.
C31_ModeAgreesWithBackend ==
  /\ (m_mode = RENDER_MODE_DIRECT2D => m_direct2DSection # NULL)
  /\ (m_dibSection # NULL => m_mode = RENDER_MODE_GDI)
  /\ (last.op = "resize" => last.exc # "UB")

\* C31 happens: resize was called on a coordinator that a throwing
\* createRenderer had left without any backend.
C31_Witness ==
  /\ last.op = "resize" /\ last.exc = "none"
  /\ m_renderManager /\ Held = {} /\ freed # {}
  /\ m_mode = RENDER_MODE_GDI

\* In a call sequence BeginDraw and EndDraw occur once each or not at all,
\* BeginDraw first and EndDraw as the last call.
Balanced(cs) ==
  LET b == {i \in 1..Len(cs) : cs[i] = "BeginDraw"}
      e == {i \in 1..Len(cs) : cs[i] \in {"EndDraw", "EndDraw=FAILED"}}
  IN  /\ Cardinality(b) = Cardinality(e) /\ Cardinality(b) <= 1
      /\ \A i \in b : \A j \in e : i < j
      /\ (e # {} => Len(cs) \in e)

\* C32: every blitFromDibSection and stretchFromDibSection that begins a
\* drawing ends it exactly once before it returns, also when the upload
\* fails; and a Direct2DSection whose render target and bitmap are gone
\* (as after releaseDirect2D) issues neither BeginDraw nor EndDraw.
C32_DrawAlwaysEnded ==
  /\ (last.op \in PresentOps => Balanced(calls))
  /\ \A rect \in DrawRects, copyOk \in BOOLEAN, endOk \in BOOLEAN :
       /\ D2DBlitFrom(releaseDirect2D(d2d).f, rect, copyOk, endOk).calls = <<>>
       /\ D2DStretch3(releaseDirect2D(d2d).f, rect, rect, copyOk, endOk).calls = <<>>
       /\ Balanced(D2DBlitFrom(d2d, rect, copyOk, endOk).calls)
       /\ Balanced(D2DStretch3(d2d, rect, rect, copyOk, endOk).calls)

\* C32 happens: the upload failed inside stretchFromDibSection and the
\* drawing was ended.
C32_Witness ==
  /\ last.op = "stretchFromDibSection"
  /\ calls = <<"BeginDraw", "CopyFromMemory=FAILED", "EndDraw">>
  /\ m_mode = RENDER_MODE_DIRECT2D /\ d2d.m_pBitmap

\* C33: a resize call on a coordinator in GDI mode does nothing, whatever
\* the rectangle: no native call is made, nothing is thrown, and the mode,
\* the backend pointers and instances, the pixels, the buffer pointer and
\* the stored dimension are as before.
C33_RasterResizeNoOp ==
  [][(last'.op = "resize" /\ m_renderManager /\ m_mode = RENDER_MODE_GDI)
       => /\ last'.exc = "none" /\ calls' = <<>>
          /\ UNCHANGED <<coordVars, m_renderManager, m_fb>>
          /\ getBuffer(RM)' = getBuffer(RM)]_vars

\* C33 happens: resize was called with a rectangle other than the stored
\* dimension on a coordinator with a live DibSection.
C33_Witness ==
  /\ last.op = "resize" /\ last.exc = "none" /\ calls = <<>>
  /\ m_renderManager /\ m_mode = RENDER_MODE_GDI /\ m_dibSection # NULL
  /\ ResizeTo(last.arg) # m_dimension
  /\ getBuffer(RM) = m_dibSection

\* C34: the facade's getRenderMode() is GDI before any setProperties and
\* whenever there is no coordinator, it is GDI right after every
\* setProperties that succeeds, and it turns from GDI to Direct2D only in a
\* facade setRenderMode(Direct2D) call that returns true.
C34_FacadeStartsRaster ==
  /\ facadeGetRenderMode(F) = RENDER_MODE_GDI
  /\ [][/\ (~m_renderManager' => facadeGetRenderMode(F)' = RENDER_MODE_GDI)
        /\ ((last'.op = "setProperties" /\ last'.exc = "none")
              => m_renderManager' /\ facadeGetRenderMode(F)' = RENDER_MODE_GDI)
        /\ ((facadeGetRenderMode(F) = RENDER_MODE_GDI
               /\ facadeGetRenderMode(F)' = RENDER_MODE_DIRECT2D)
              => /\ last'.op = "setRenderMode" /\ last'.arg = RENDER_MODE_DIRECT2D
                 /\ last'.ret = "true")]_vars

\* C34 happens: a setProperties on a facade in Direct2D mode succeeded (the
\* old backend's Direct2D resources were released) and the mode is GDI.
C34_Witness ==
  /\ last.op = "setProperties" /\ last.exc = "none"
  /\ Has(calls, {"Factory.Release"})
  /\ m_renderManager /\ facadeGetRenderMode(F) = RENDER_MODE_GDI /\ m_dibSection # NULL

\* C35: after an accept call that fails with an Exception (a connect error
\* or a refused client) no client is attached to the server's pipe handle, so
\* the next accept waits for a new client and returns a stream to the client
\* that connected during that call.
C35_FailedAcceptDetaches ==
  /\ []((server /\ last.op = "accept" /\ last.exc = "Exception") => peer = "none")
  /\ [][(server /\ last.op = "accept" /\ last.exc = "Exception"
           /\ last'.op = "accept" /\ last'.exc = "none")
          => peer = "none"]_vars

\* C36: a pipe handle has one owner.  The server's handle is never one a
\* returned NamedPipe holds, every handle a NamedPipe holds is open, an
\* accept that returns hands over a handle no earlier NamedPipe holds and
\* leaves the server's handle invalid, and an accept that starts without a
\* handle creates a new pipe instance with a handle never used before.
C36_HandleHasOneOwner ==
  /\ [](m_serverPipe \notin streams /\ streams \subseteq hOpen)
  /\ [][last'.op = "accept"
          => /\ (last'.exc = "none"
                   => /\ m_serverPipe' = INVALID_HANDLE_VALUE
                      /\ \E h \in hOpen' \ streams :
                           /\ streams' = streams \cup {h}
                           /\ h = (IF m_serverPipe = INVALID_HANDLE_VALUE
                                   THEN hNext ELSE m_serverPipe))
             /\ (last'.exc # "none" => streams' = streams)
             /\ ((m_serverPipe = INVALID_HANDLE_VALUE /\ hNext' # hNext)
                   => /\ hNext \notin hOpen \cup streams /\ hNext' = hNext + 1
                      /\ (m_serverPipe' = hNext \/ hNext \in streams'))]_vars

\* C36 happens: accept has returned a second NamedPipe, each with a handle
\* of its own, and the server holds none.
C36_Witness ==
  /\ last.op = "accept" /\ last.exc = "none" /\ server
  /\ Cardinality(streams) >= 2 /\ m_serverPipe = INVALID_HANDLE_VALUE

\* C37: when revertToSelf has returned, every token handle and every
\* duplicated token handle the Impersonator has taken since it was
\* constructed is closed, and none was closed twice.
C37_NoTokenLeak ==
  (last.op = "revertToSelf" /\ last.exc = "none")
    => /\ hOpen = {}
       /\ hBadClose = {}
       /\ m_token = INVALID_HANDLE_VALUE /\ m_dupToken = INVALID_HANDLE_VALUE

\* C38: the bytes returned by all reads so far, followed by the bytes still
\* queued, are exactly the bytes passed to all writes so far, in order: what
\* was read is a prefix of what was written, nothing lost, doubled or moved.
C38_Fifo ==
  /\ written = readOut \o buf
  /\ Len(readOut) <= Len(written)
  /\ SubSeq(written, 1, Len(readOut)) = readOut

\* C38 happens: writes and reads were interleaved, a read has taken bytes
\* of two values from the middle of the queue and bytes are left behind it.
C38_Witness ==
  /\ last.op = "read" /\ last.ret >= 1
  /\ Len(readOut) > last.ret /\ buf # <<>>
  /\ Len(written) = MaxWritten
  /\ \E i, j \in 1..Len(written) : written[i] # written[j]

\* C39: write(buf, len) returns len and raises available() by len; read(buf,
\* len) returns the smaller of len and available(), 0 on an empty queue,
\* without failing, and lowers available() by what it returned; available()
\* is always the number of bytes written minus the number of bytes read.
C39_Accounting ==
  /\ [](available(buf) = Len(written) - Len(readOut))
  /\ [][/\ (last'.op = "write"
              => /\ last'.ret = Len(last'.arg) /\ last'.exc = "none"
                 /\ available(buf)' = available(buf) + Len(last'.arg))
        /\ (last'.op = "read"
              => /\ last'.ret = (IF last'.arg < available(buf)
                                 THEN last'.arg ELSE available(buf))
                 /\ last'.exc = "none"
                 /\ (available(buf) = 0 => last'.ret = 0)
                 /\ available(buf)' = available(buf) - last'.ret)]_vars

\* C39 happens: a read asked for more than was queued and got what there was.
C39_Witness ==
  /\ last.op = "read" /\ last.arg > last.ret /\ last.ret >= 1
  /\ available(buf) = 0 /\ Len(written) = Len(readOut) /\ written # <<>>

\* C40: while a Direct2DSection is live exactly one of m_pHwndRenderTarget
\* and m_pDCRenderTarget is set and m_pRenderTarget is that target; after
\* releaseDirect2D, and when there is no Direct2DSection, all three are null;
\* a resize that gets past the size comparison on a live Direct2DSection
\* enters exactly one of its two branches, the one of the target it has.
C40_OneTargetPointer ==
  /\ [](/\ (m_direct2DSection # NULL
              => /\ d2d.m_pHwndRenderTarget # d2d.m_pDCRenderTarget
                 /\ d2d.m_pRenderTarget = (IF d2d.m_pHwndRenderTarget THEN "hwnd" ELSE "dc"))
        /\ (m_direct2DSection = NULL
              => /\ ~d2d.m_pHwndRenderTarget /\ ~d2d.m_pDCRenderTarget
                 /\ d2d.m_pRenderTarget = "NULL")
        /\ ~releaseDirect2D(d2d).f.m_pHwndRenderTarget
        /\ ~releaseDirect2D(d2d).f.m_pDCRenderTarget
        /\ releaseDirect2D(d2d).f.m_pRenderTarget = "NULL")
  /\ [][(ResizeStep /\ resizeNeeded(d2d, ResizeTo(last'.arg)))
          => /\ Has(calls', {"Resize", "Resize=FAILED"}) # Has(calls', {"GetDC", "GetDC=NULL"})
             /\ (Has(calls', {"Resize", "Resize=FAILED"}) <=> d2d.m_pHwndRenderTarget)
             /\ (Has(calls', {"GetDC", "GetDC=NULL"}) <=> d2d.m_pDCRenderTarget)]_vars

\* C40 happens: a resize to another size reached a live Direct2DSection whose
\* only target is the device-context-bound one and took the rebind branch.
C40_Witness ==
  /\ last.op = "resize" /\ last.exc = "none" /\ Has(calls, {"GetDC"})
  /\ m_mode = RENDER_MODE_DIRECT2D /\ m_direct2DSection # NULL
  /\ d2d.m_pDCRenderTarget /\ ~d2d.m_pHwndRenderTarget /\ d2d.m_pRenderTarget = "dc"
  /\ freed # {}

====
